---- MODULE Spec2Model ----
(***************************************************************************)
(* The in-memory inverted index of desktop-search                          *)
(* (desktopsearch/backends/memory.py): the docs<->ids maps, the per-field  *)
(* posting tables and the per-document frequency maps, with the mutating   *)
(* operations add_document_freqs / add_document / remove_document /        *)
(* update_document / clear and the read operations get_docs / get_paths /  *)
(* get_paths_op; and the indexer that drives it (IndexerMemory.index): a    *)
(* pass over the files under the roots that diffs their mtimes against the *)
(* mtimes map and adds, updates and removes documents.                     *)
(*                                                                         *)
(* Python dicts are modelled as functions whose DOMAIN is the key set.     *)
(* A posting map (doc_id -> term frequency) keeps its insertion order,     *)
(* which the "unscored" score reads: it is a sequence of <<doc_id, tf>>.   *)
(* An exception raised by an operation is its `ret`; what the operation    *)
(* had already written when it raised stays written.                       *)
(***************************************************************************)
EXTENDS Integers, Sequences, FiniteSets, TLC

\* ---------------------------------------------------------------- bounds

\* the number of calls in a run
MaxOps == 4

\* the paths the calls name: two documents under different roots
Paths == {"r/a.py", "s/c.txt"}

\* The two fields, in the insertion order clear() gives table and doc_freqs.
FieldOrder == <<"code", "text">>
Fields == {FieldOrder[i] : i \in 1..Len(FieldOrder)}

\* Tokens that documents contain; a freqs dict lists its tokens in this order.
TokenOrder == <<"a">>
Tokens == {TokenOrder[i] : i \in 1..Len(TokenOrder)}

\* str.upper() on the tokens of the model.
Upper(t) == CASE t = "a" -> "A" [] OTHER -> t

\* Tokens a caller may look up: the indexed ones and their upper-case forms.
QueryTokens == Tokens \cup {Upper(t) : t \in Tokens}

None == "None"

DEFAULT_CONFIG ==
    [code |-> [tokenize |-> FALSE, case_sensitive |-> TRUE, lemmatize |-> FALSE],
     text |-> [tokenize |-> TRUE, case_sensitive |-> FALSE, lemmatize |-> TRUE]]

\* The module-level default as imported: every index created without a config
\* has this dict itself as its config.
Untouched == [value |-> DEFAULT_CONFIG, shared |-> TRUE]

OP_METHODS == {"and", "or"}
SCORING_METHODS == {"unscored", "term_freq", "tfidf"}

\* docs2ids .. keep_docs: the fields of InvertedIndexMemory; config: the
\* analyzer's active config; mtimes: the indexer's path -> mtime map; files:
\* the files under the roots (path -> mtime and content); counts: the result of
\* the last indexing pass; last: the last call; nops: the calls made.
\* the requests the front-end can be handling at once
MaxRequests == 2
RequestIds == 1..MaxRequests

\* Where the handler of a request is: not running, inside indexer.index, or
\* inside retriever.search_text.
Positions == {"idle", "indexing", "searching"}
NoRequests == [r \in RequestIds |-> "idle"]

\* default_nlp: the module-level dict DEFAULT_CONFIG of nlp.py, which the
\* front-end changes in place: its value, and whether the config of the index
\* is this very dict (shared) or a dict of its own.
VARIABLES docs2ids, ids2docs, table, doc_freqs, keep_docs, config, mtimes, files,
          counts, last, nops, requests, default_nlp

index_vars == <<docs2ids, ids2docs, table, doc_freqs>>
vars == <<docs2ids, ids2docs, table, doc_freqs, keep_docs, config, mtimes, files,
          counts, last, nops, requests, default_nlp>>

\* ------------------------------------------------------------ Python dicts

EmptyDict == <<>>

\* d[k] = v on a dict modelled as a function
Put(d, k, v) == [x \in (DOMAIN d) \cup {k} |-> IF x = k THEN v ELSE d[x]]

\* An insertion-ordered dict doc_id -> tf: a sequence of <<doc_id, tf>>.
DictKeys(pm) == {pm[i][1] : i \in DOMAIN pm}
DictGet(pm, k) == pm[CHOOSE i \in DOMAIN pm : pm[i][1] = k][2]
DictSet(pm, k, v) ==
    IF k \in DictKeys(pm)
    THEN [i \in DOMAIN pm |-> IF pm[i][1] = k THEN <<k, v>> ELSE pm[i]]
    ELSE Append(pm, <<k, v>>)
DictDel(pm, k) == SelectSeq(pm, LAMBDA e : e[1] # k)

\* The tokens of a freqs dict in its iteration order.
ItemOrder(freqs) == SelectSeq(TokenOrder, LAMBDA t : t \in DOMAIN freqs)

\* ------------------------------------------------------------------ inputs

\* token -> frequency dicts
TermFreqs == {1, 2}
TokenFreqs == UNION {[ts -> TermFreqs] : ts \in SUBSET Tokens}
\* freqs_dict arguments of add_document_freqs: field -> (token -> frequency),
\* naming both fields or one of them.
FreqDicts == UNION {[fs -> TokenFreqs] : fs \in (SUBSET Fields) \ {{}}}
\* What the analyzer returns for a file: a counter for every field of the config.
AnalyzedFreqs == [Fields -> TokenFreqs]

\* ------------------------------------------------------------- index state

IndexState == [docs2ids |-> docs2ids, ids2docs |-> ids2docs,
               table |-> table, doc_freqs |-> doc_freqs]

clear ==
    [docs2ids |-> EmptyDict, ids2docs |-> EmptyDict,
     table |-> [f \in Fields |-> EmptyDict],
     doc_freqs |-> [f \in Fields |-> EmptyDict]]

Outcome(S, ret) == [state |-> S, ret |-> ret]

\* ------------------------------------------------------ add_document_freqs

\* Mutant of AllocId: a fresh id on every add, also for a path that has one.
AllocIdFresh(S, path) == Cardinality(DOMAIN S.docs2ids)

\* Mutant of AllocId: a new path gets the number of live documents as its id.
AllocIdLiveCount(S, path) ==
    IF path \in DOMAIN S.docs2ids
    THEN S.docs2ids[path]
    ELSE Cardinality({q \in DOMAIN S.docs2ids : S.ids2docs[S.docs2ids[q]] # None})

\* doc_id = self.docs2ids[path], or len(self.docs2ids) for an unknown path
AllocId(S, path) ==
    IF path \in DOMAIN S.docs2ids
    THEN S.docs2ids[path]
    ELSE Cardinality(DOMAIN S.docs2ids)

\* Mutant of IsDuplicate: the duplicate check is missing.
IsDuplicateNever(S, path) == FALSE

\* the path is known and self.ids2docs[doc_id] is not None
IsDuplicate(S, path) ==
    /\ path \in DOMAIN S.docs2ids
    /\ S.ids2docs[S.docs2ids[path]] # None

\* if self.keep_docs: self.doc_freqs[name][doc_id] = freqs, for the fields named
WriteDocFreqs(df, freqs_dict, doc_id) ==
    IF keep_docs
    THEN [f \in Fields |->
            IF f \in DOMAIN freqs_dict THEN Put(df[f], doc_id, freqs_dict[f]) ELSE df[f]]
    ELSE df

\* Mutant of WriteField: a posting records presence (1), not the frequency.
WriteFieldPresence(index, freqs, doc_id) ==
    [t \in (DOMAIN index) \cup (DOMAIN freqs) |->
        IF t \in DOMAIN freqs
        THEN DictSet(IF t \in DOMAIN index THEN index[t] ELSE EmptyDict, doc_id, 1)
        ELSE index[t]]

\* index[token][doc_id] = freq on the defaultdict(dict) of one field
WriteField(index, freqs, doc_id) ==
    [t \in (DOMAIN index) \cup (DOMAIN freqs) |->
        IF t \in DOMAIN freqs
        THEN DictSet(IF t \in DOMAIN index THEN index[t] ELSE EmptyDict, doc_id, freqs[t])
        ELSE index[t]]

WritePostings(tbl, freqs_dict, doc_id) ==
    [f \in Fields |->
        IF f \in DOMAIN freqs_dict THEN WriteField(tbl[f], freqs_dict[f], doc_id) ELSE tbl[f]]

add_document_freqs(S, path, freqs_dict) ==
    IF path \in DOMAIN S.docs2ids /\ S.docs2ids[path] \notin DOMAIN S.ids2docs
    THEN Outcome(S, "KeyError")
    ELSE IF IsDuplicate(S, path)
    THEN Outcome(S, "False")
    ELSE LET doc_id == AllocId(S, path) IN
         Outcome([docs2ids |-> Put(S.docs2ids, path, doc_id),
                  ids2docs |-> Put(S.ids2docs, doc_id, path),
                  table |-> WritePostings(S.table, freqs_dict, doc_id),
                  doc_freqs |-> WriteDocFreqs(S.doc_freqs, freqs_dict, doc_id)],
                 "True")

\* --------------------------------------------------------- remove_document

\* for token in field_freqs[doc_id]: del index[token][doc_id]
\* index[token] on the defaultdict inserts a missing token before del raises.
RECURSIVE DelTokens(_, _, _, _)
DelTokens(index, toks, k, doc_id) ==
    IF k > Len(toks)
    THEN [index |-> index, ok |-> TRUE]
    ELSE LET t == toks[k]
             idx == IF t \in DOMAIN index THEN index ELSE Put(index, t, EmptyDict)
         IN IF doc_id \in DictKeys(idx[t])
            THEN DelTokens(Put(idx, t, DictDel(idx[t], doc_id)), toks, k + 1, doc_id)
            ELSE [index |-> idx, ok |-> FALSE]

\* for name, field_freqs in self.doc_freqs.items(): ... field_freqs[doc_id] ...
RECURSIVE DelFields(_, _, _, _)
DelFields(tbl, df, k, doc_id) ==
    IF k > Len(FieldOrder)
    THEN [table |-> tbl, ok |-> TRUE]
    ELSE LET f == FieldOrder[k] IN
         IF doc_id \notin DOMAIN df[f]
         THEN [table |-> tbl, ok |-> FALSE]
         ELSE LET r == DelTokens(tbl[f], ItemOrder(df[f][doc_id]), 1, doc_id) IN
              IF r.ok
              THEN DelFields([tbl EXCEPT ![f] = r.index], df, k + 1, doc_id)
              ELSE [table |-> [tbl EXCEPT ![f] = r.index], ok |-> FALSE]

\* for every field and token of the index: freqs.pop(doc_id, None)
PopEverywhere(tbl, doc_id) ==
    [f \in Fields |-> [t \in DOMAIN tbl[f] |-> DictDel(tbl[f][t], doc_id)]]

\* Mutant of remove_document: an unknown path is ignored instead of raising.
remove_document_lenient(S, path) ==
    IF path \notin DOMAIN S.docs2ids
    THEN Outcome(S, "None")
    ELSE LET doc_id == S.docs2ids[path]
             tomb == [S EXCEPT !.ids2docs = Put(S.ids2docs, doc_id, None)]
         IN IF keep_docs
            THEN LET r == DelFields(S.table, S.doc_freqs, 1, doc_id) IN
                 Outcome([tomb EXCEPT !.table = r.table],
                         IF r.ok THEN "None" ELSE "KeyError")
            ELSE Outcome([tomb EXCEPT !.table = PopEverywhere(S.table, doc_id)], "None")

remove_document(S, path) ==
    IF path \notin DOMAIN S.docs2ids
    THEN Outcome(S, "InvalidDocument")
    ELSE LET doc_id == S.docs2ids[path]
             tomb == [S EXCEPT !.ids2docs = Put(S.ids2docs, doc_id, None)]
         IN IF keep_docs
            THEN LET r == DelFields(S.table, S.doc_freqs, 1, doc_id) IN
                 Outcome([tomb EXCEPT !.table = r.table],
                         IF r.ok THEN "None" ELSE "KeyError")
            ELSE Outcome([tomb EXCEPT !.table = PopEverywhere(S.table, doc_id)], "None")

\* ------------------------------------------- add_document, update_document

\* analyzer.analyze(path): the counters of the file, or NotAnalyzable raised
NotAnalyzable == [ok |-> FALSE, freqs |-> EmptyDict]
AnalyzeResults == {[ok |-> TRUE, freqs |-> F] : F \in AnalyzedFreqs} \cup {NotAnalyzable}

\* analyzer.analyze(path) raises another exception (the file cannot be read,
\* the plugin fails): add_document lets it pass.
Raises == [ok |-> FALSE, freqs |-> EmptyDict, raises |-> TRUE]

\* Mutant of add_document: a file that is not analyzable is indexed as a
\* document without tokens.
add_document_empty(S, path, analysis) ==
    IF analysis = Raises
    THEN Outcome(S, "Exception")
    ELSE IF ~analysis.ok
    THEN add_document_freqs(S, path, [f \in Fields |-> EmptyDict])
    ELSE add_document_freqs(S, path, analysis.freqs)

add_document(S, path, analysis) ==
    IF analysis = Raises
    THEN Outcome(S, "Exception")
    ELSE IF ~analysis.ok
    THEN Outcome(S, "False")
    ELSE add_document_freqs(S, path, analysis.freqs)

\* Mutant of update_document: the old document is not removed first.
update_document_add_only(S, path, analysis) ==
    IF path \notin DOMAIN S.docs2ids
    THEN Outcome(S, "InvalidDocument")
    ELSE add_document(S, path, analysis)

update_document(S, path, analysis) ==
    LET r == remove_document(S, path) IN
    IF r.ret # "None" THEN r ELSE add_document(r.state, path, analysis)

\* ------------------------------------------------------------------- reads

\* Mutant of get_docs: self.table[field][token], which makes the defaultdict
\* insert an unknown token.
get_docs_subscript(tbl, field, token) ==
    [table |-> IF token \in DOMAIN tbl[field]
               THEN tbl
               ELSE [tbl EXCEPT ![field] = Put(tbl[field], token, EmptyDict)],
     docs |-> IF token \in DOMAIN tbl[field] THEN tbl[field][token] ELSE EmptyDict]

\* self.table[field].get(token, {}): the posting map, and the table afterwards
get_docs(tbl, field, token) ==
    [table |-> tbl,
     docs |-> IF token \in DOMAIN tbl[field] THEN tbl[field][token] ELSE EmptyDict]

\* tf * log10(num_docs / df), kept symbolic
_tfidf(tf, num_docs, df) == [tf |-> tf, num_docs |-> num_docs, df |-> df]

\* The (path, score) pairs the generator yields when it is consumed.
get_paths(S, field, token, scoring) ==
    LET r == get_docs(S.table, field, token)
        docs == r.docs
        num_docs == Cardinality(DOMAIN r.table[field])
        score(i) == CASE scoring = "unscored" -> i - 1
                      [] scoring = "term_freq" -> docs[i][2]
                      [] scoring = "tfidf" -> _tfidf(docs[i][2], num_docs, Len(docs))
    IN [table |-> r.table,
        ret |-> "paths",
        out |-> [i \in 1..Len(docs) |-> <<S.ids2docs[docs[i][1]], score(i)>>]]

\* the table after get_docs was called for tokens[k..]
RECURSIVE TableAfterLookups(_, _, _, _)
TableAfterLookups(tbl, field, tokens, k) ==
    IF k > Len(tokens)
    THEN tbl
    ELSE TableAfterLookups(get_docs(tbl, field, tokens[k]).table, field, tokens, k + 1)

\* Iteration order of a set of small ints: ascending.
RECURSIVE SetOrder(_)
SetOrder(ids) ==
    IF ids = {}
    THEN <<>>
    ELSE LET m == CHOOSE x \in ids : \A y \in ids : x <= y
         IN <<m>> \o SetOrder(ids \ {m})

\* sum of the term frequencies of doc_id over tokens[k..]
RECURSIVE SumTermFreqs(_, _, _, _, _)
SumTermFreqs(tbl, field, tokens, k, doc_id) ==
    IF k > Len(tokens)
    THEN 0
    ELSE LET docs == get_docs(tbl, field, tokens[k]).docs
         IN (IF doc_id \in DictKeys(docs) THEN DictGet(docs, doc_id) ELSE 0)
            + SumTermFreqs(tbl, field, tokens, k + 1, doc_id)

\* the tf-idf contributions to doc_id of tokens[k..], in token order
RECURSIVE TfidfTerms(_, _, _, _, _)
TfidfTerms(tbl, field, tokens, k, doc_id) ==
    IF k > Len(tokens)
    THEN <<>>
    ELSE LET docs == get_docs(tbl, field, tokens[k]).docs
             num_docs == Cardinality(DOMAIN tbl[field])
         IN (IF doc_id \in DictKeys(docs)
             THEN <<_tfidf(DictGet(docs, doc_id), num_docs, Len(docs))>>
             ELSE <<>>)
            \o TfidfTerms(tbl, field, tokens, k + 1, doc_id)

\* set.intersection(*sets) / set.union(*sets) for a non-empty tuple of sets
setop(op, sets) ==
    IF op = "and"
    THEN {d \in sets[1] : \A k \in DOMAIN sets : d \in sets[k]}
    ELSE UNION {sets[k] : k \in DOMAIN sets}

\* Mutant of get_paths_op: the documents of every token are chained, not
\* combined as sets.
get_paths_op_chained(S, field, tokens, op, scoring) ==
    LET tbl == TableAfterLookups(S.table, field, tokens, 1)
        sets == [k \in DOMAIN tokens |-> DictKeys(get_docs(S.table, field, tokens[k]).docs)]
    IN IF Len(tokens) = 0
       THEN [table |-> tbl, ret |-> "TypeError", out |-> <<>>]
       ELSE LET docs_op == IF Len(tokens) = 1
                           THEN SetOrder(sets[1])
                           ELSE SetOrder(sets[1]) \o SetOrder(setop(op, Tail(sets)))
                score(i) == CASE scoring = "unscored" -> i - 1
                              [] scoring = "term_freq" ->
                                   SumTermFreqs(tbl, field, tokens, 1, docs_op[i])
                              [] scoring = "tfidf" ->
                                   TfidfTerms(tbl, field, tokens, 1, docs_op[i])
            IN [table |-> tbl,
                ret |-> "paths",
                out |-> [i \in 1..Len(docs_op) |-> <<S.ids2docs[docs_op[i]], score(i)>>]]

get_paths_op(S, field, tokens, op, scoring) ==
    LET tbl == TableAfterLookups(S.table, field, tokens, 1)
        sets == [k \in DOMAIN tokens |-> DictKeys(get_docs(S.table, field, tokens[k]).docs)]
    IN IF Len(tokens) = 0
       THEN [table |-> tbl, ret |-> "TypeError", out |-> <<>>]
       ELSE LET docs_op == SetOrder(setop(op, sets))
                score(i) == CASE scoring = "unscored" -> i - 1
                              [] scoring = "term_freq" ->
                                   SumTermFreqs(tbl, field, tokens, 1, docs_op[i])
                              [] scoring = "tfidf" ->
                                   TfidfTerms(tbl, field, tokens, 1, docs_op[i])
            IN [table |-> tbl,
                ret |-> "paths",
                out |-> [i \in 1..Len(docs_op) |-> <<S.ids2docs[docs_op[i]], score(i)>>]]

\* ----------------------------------------------------------------- actions

\* The call the last step made and what it returned or raised.
NoCall ==
    [op |-> "__init__", path |-> None, ret |-> "None"]

\* one more call of the run
CanCall == nops < MaxOps
Called ==
    /\ nops' = nops + 1
    /\ UNCHANGED <<keep_docs, config, mtimes, files, counts, requests, default_nlp>>

Init ==
    /\ docs2ids = clear.docs2ids
    /\ ids2docs = clear.ids2docs
    /\ table = clear.table
    /\ doc_freqs = clear.doc_freqs
    /\ keep_docs \in BOOLEAN
    /\ config = DEFAULT_CONFIG
    /\ mtimes = EmptyDict
    /\ files = EmptyDict
    /\ counts = <<0, 0, 0>>
    /\ last = NoCall
    /\ nops = 0
    /\ requests = NoRequests
    /\ default_nlp = Untouched

Becomes(S) ==
    /\ docs2ids' = S.docs2ids
    /\ ids2docs' = S.ids2docs
    /\ table' = S.table
    /\ doc_freqs' = S.doc_freqs

AddDocumentFreqs ==
    /\ CanCall
    /\ \E path \in Paths, freqs_dict \in FreqDicts :
        LET r == add_document_freqs(IndexState, path, freqs_dict) IN
        /\ Becomes(r.state)
        /\ last' = [op |-> "add_document_freqs", path |-> path, ret |-> r.ret]
        /\ Called

AddDocument ==
    /\ CanCall
    /\ \E path \in Paths, analysis \in AnalyzeResults :
        LET r == add_document(IndexState, path, analysis) IN
        /\ Becomes(r.state)
        /\ last' = [op |-> "add_document", path |-> path, ret |-> r.ret]
        /\ Called

RemoveDocument ==
    /\ CanCall
    /\ \E path \in Paths :
        LET r == remove_document(IndexState, path) IN
        /\ Becomes(r.state)
        /\ last' = [op |-> "remove_document", path |-> path, ret |-> r.ret]
        /\ Called

UpdateDocument ==
    /\ CanCall
    /\ \E path \in Paths, analysis \in AnalyzeResults :
        LET r == update_document(IndexState, path, analysis) IN
        /\ Becomes(r.state)
        /\ last' = [op |-> "update_document", path |-> path, ret |-> r.ret]
        /\ Called

Clear ==
    /\ CanCall
    /\ Becomes(clear)
    /\ last' = [op |-> "clear", path |-> None, ret |-> "None"]
    /\ Called

GetDocs ==
    /\ CanCall
    /\ \E field \in Fields, token \in QueryTokens :
        LET r == get_docs(table, field, token) IN
        /\ table' = r.table
        /\ last' = [op |-> "get_docs", path |-> None, ret |-> "docs"]
        /\ UNCHANGED <<docs2ids, ids2docs, doc_freqs>>
        /\ Called

GetPaths ==
    /\ CanCall
    /\ \E field \in Fields, token \in QueryTokens, scoring \in SCORING_METHODS :
        LET r == get_paths(IndexState, field, token, scoring) IN
        /\ table' = r.table
        /\ last' = [op |-> "get_paths", path |-> None, ret |-> r.ret]
        /\ UNCHANGED <<docs2ids, ids2docs, doc_freqs>>
        /\ Called

\* token lists of a query: none, one token, two tokens
QueryLens == {0, 1, 2}
TokenSeqs == UNION {[1..n -> QueryTokens] : n \in QueryLens}

GetPathsOp ==
    /\ CanCall
    /\ \E field \in Fields, tokens \in TokenSeqs, op \in OP_METHODS,
       scoring \in SCORING_METHODS :
        LET r == get_paths_op(IndexState, field, tokens, op, scoring) IN
        /\ table' = r.table
        /\ last' = [op |-> "get_paths_op", path |-> None, ret |-> r.ret]
        /\ UNCHANGED <<docs2ids, ids2docs, doc_freqs>>
        /\ Called

Next ==
    \/ AddDocumentFreqs
    \/ AddDocument
    \/ RemoveDocument
    \/ UpdateDocument
    \/ Clear
    \/ GetDocs
    \/ GetPaths
    \/ GetPathsOp

Spec == Init /\ [][Next]_vars

\* ------------------------------------------------------------ vocabulary

IsKnown(p) == p \in DOMAIN docs2ids
IsLive(p) == IsKnown(p) /\ ids2docs[docs2ids[p]] # None
IsTombstoned(p) == IsKnown(p) /\ ids2docs[docs2ids[p]] = None

\* some posting list of the table holds doc_id
HasPosting(tbl, doc_id) ==
    \E f \in Fields : \E t \in DOMAIN tbl[f] : doc_id \in DictKeys(tbl[f][t])

\* field -> token -> frequency of doc_id, read off the posting lists
PostingsOf(tbl, doc_id) ==
    [f \in Fields |->
        [t \in {u \in DOMAIN tbl[f] : doc_id \in DictKeys(tbl[f][u])} |->
            DictGet(tbl[f][t], doc_id)]]

ReadOps == {"get_docs", "get_paths", "get_paths_op"}

\* ----------------------------------------------------------------- indexer

\* the number of steps (changes of the files, indexing passes) in a run of
\* the indexer, and in a run that indexes incrementally with the default
\* arguments only
MaxSteps == 3
MaxIncrementalSteps == 5

\* del d[k]
DelKey(d, k) == [x \in (DOMAIN d) \ {k} |-> d[x]]

\* Path.suffix
Suffix(path) ==
    CASE path = "r/a.py" -> ".py"
      [] path = "s/c.txt" -> ".txt"
      [] OTHER -> ""

\* the order in which the traversal of the roots yields the files
TraversalOrder == <<"r/a.py", "s/c.txt">>

\* what analyzer.analyze gives for the content of a file: not analyzable, no
\* token at all, a token of the code field, a token of the text field
FileContents ==
    {NotAnalyzable,
     [ok |-> TRUE, freqs |-> [code |-> EmptyDict, text |-> EmptyDict]],
     [ok |-> TRUE, freqs |-> [code |-> [t \in {"a"} |-> 1], text |-> EmptyDict]],
     [ok |-> TRUE, freqs |-> [code |-> EmptyDict, text |-> [t \in {"a"} |-> 2]]]}

\* the files that exist under the roots: path -> mtime and content
FileStates(mtime) ==
    UNION {[ps -> [mtime : {mtime}, content : FileContents]] : ps \in SUBSET Paths}

\* the config a pass may be called with: the NLP config with the
\* case-sensitivity of the text field as the request gives it
ALT_CONFIG == [DEFAULT_CONFIG EXCEPT !.text.case_sensitive = TRUE]
Configs == {DEFAULT_CONFIG, ALT_CONFIG}
\* config: Optional[Dict] = None
NoConfig == [given |-> FALSE, value |-> DEFAULT_CONFIG]
ConfigArgs == {NoConfig} \cup {[given |-> TRUE, value |-> c] : c \in Configs}

\* suffixes: Optional[Set[str]]; None and the empty set do not filter
SuffixArgs == {{}, {".py"}}

\* analyzer.set_config(config)
set_config(cfg) == IF cfg.given THEN cfg.value ELSE DEFAULT_CONFIG

\* the files the traversal yields, after the suffix filter, in traversal order
Traversal(fls, suffixes) ==
    SelectSeq(TraversalOrder,
              LAMBDA f : f \in DOMAIN fls /\ (suffixes = {} \/ Suffix(f) \in suffixes))

\* the keys of mtimes that the traversal does not yield
Unseen(mt, fls, suffixes) ==
    LET found == Traversal(fls, suffixes) IN
    (DOMAIN mt) \ {found[i] : i \in DOMAIN found}

\* the running state of a pass: the index, mtimes, the files seen, the three
\* counters, and "ok" or the exception that aborted the pass
PassStart(S, mt) ==
    [state |-> S, mtimes |-> mt, touched |-> {},
     added |-> 0, removed |-> 0, updated |-> 0, ret |-> "ok"]

\* Mutant of AddFile: the mtime is recorded only if add_document succeeds.
AddFileOnSuccess(acc, filename, new_mtime, analysis) ==
    LET r == add_document(acc.state, filename, analysis) IN
    [acc EXCEPT !.state = r.state,
                !.mtimes = IF r.ret = "True" THEN Put(acc.mtimes, filename, new_mtime) ELSE @,
                !.added = IF r.ret = "True" THEN @ + 1 ELSE @,
                !.ret = IF r.ret \in {"True", "False"} THEN "ok" ELSE r.ret]

\* add: record the mtime, add_document, count the file if it reports success
AddFile(acc, filename, new_mtime, analysis) ==
    LET r == add_document(acc.state, filename, analysis) IN
    [acc EXCEPT !.state = r.state,
                !.mtimes = Put(acc.mtimes, filename, new_mtime),
                !.added = IF r.ret = "True" THEN @ + 1 ELSE @,
                !.ret = IF r.ret \in {"True", "False"} THEN "ok" ELSE r.ret]

\* what the pass does with r, the outcome of update_document: success counts
\* as updated, a failed re-add as removed; InvalidDocument makes it an add;
\* another exception aborts the pass
Updated(acc, filename, new_mtime, analysis, r) ==
    CASE r.ret = "InvalidDocument" -> AddFile(acc, filename, new_mtime, analysis)
      [] r.ret = "True" ->
            [acc EXCEPT !.state = r.state,
                        !.mtimes = Put(acc.mtimes, filename, new_mtime),
                        !.updated = @ + 1]
      [] r.ret = "False" ->
            [acc EXCEPT !.state = r.state,
                        !.mtimes = Put(acc.mtimes, filename, new_mtime),
                        !.removed = @ + 1]
      [] OTHER -> [acc EXCEPT !.state = r.state, !.ret = r.ret]

\* update: update_document and the bookkeeping of its outcome
UpdateFile(acc, filename, new_mtime, analysis) ==
    Updated(acc, filename, new_mtime, analysis, update_document(acc.state, filename, analysis))

\* the diff of one file against mtimes and its dispatch
IndexFile(acc, filename, new_mtime, analysis, partial) ==
    IF ~partial
    THEN AddFile(acc, filename, new_mtime, analysis)
    ELSE LET seen == [acc EXCEPT !.touched = @ \cup {filename}] IN
         IF filename \notin DOMAIN acc.mtimes
         THEN AddFile(seen, filename, new_mtime, analysis)
         ELSE IF acc.mtimes[filename] = new_mtime
         THEN seen
         ELSE UpdateFile(seen, filename, new_mtime, analysis)

\* the loop over the files the traversal yields, from the k-th on
RECURSIVE IndexFiles(_, _, _, _, _)
IndexFiles(acc, fls, found, k, partial) ==
    IF k > Len(found) \/ acc.ret # "ok"
    THEN acc
    ELSE LET f == found[k] IN
         IndexFiles(IndexFile(acc, f, fls[f].mtime, fls[f].content, partial),
                    fls, found, k + 1, partial)

\* Mutant of RemoveDeleted: the document is removed from the index but its
\* mtimes entry is kept.
RECURSIVE RemoveDeletedKeepsMtime(_, _, _)
RemoveDeletedKeepsMtime(acc, deleted, k) ==
    IF k > Len(deleted) \/ acc.ret # "ok"
    THEN acc
    ELSE LET r == remove_document(acc.state, deleted[k]) IN
         IF r.ret = "None"
         THEN RemoveDeletedKeepsMtime([acc EXCEPT !.state = r.state, !.removed = @ + 1],
                                      deleted, k + 1)
         ELSE [acc EXCEPT !.state = r.state, !.ret = r.ret]

\* end of a partial pass: for filename in mtimes.keys() - touched:
\* remove_document, del mtimes[filename], removed += 1
RECURSIVE RemoveDeleted(_, _, _)
RemoveDeleted(acc, deleted, k) ==
    IF k > Len(deleted) \/ acc.ret # "ok"
    THEN acc
    ELSE LET r == remove_document(acc.state, deleted[k]) IN
         IF r.ret = "None"
         THEN RemoveDeleted([acc EXCEPT !.state = r.state,
                                        !.mtimes = DelKey(acc.mtimes, deleted[k]),
                                        !.removed = @ + 1],
                            deleted, k + 1)
         ELSE [acc EXCEPT !.state = r.state, !.ret = r.ret]

\* the iteration orders of a set of paths
Orders(ps) ==
    {o \in [1..Cardinality(ps) -> ps] : \A i, j \in DOMAIN o : o[i] = o[j] => i = j}

\* IndexerBase._index: a full pass forgets mtimes and adds every file; a
\* partial pass diffs every file and then removes the files it did not see.
\* `order` gives the iteration order of the set mtimes.keys() - touched.
\* after the loop: a partial pass that was not aborted removes the files of
\* mtimes that it did not see
EndOfPass(acc, partial, order) ==
    IF partial /\ acc.ret = "ok"
    THEN RemoveDeleted(acc,
                       SelectSeq(order, LAMBDA f : f \in (DOMAIN acc.mtimes) \ acc.touched),
                       1)
    ELSE acc

_index(S, mt, fls, suffixes, partial, order) ==
    EndOfPass(IndexFiles(PassStart(S, IF partial THEN mt ELSE EmptyDict),
                         fls, Traversal(fls, suffixes), 1, partial),
              partial, order)

\* Mutant of index: a full pass does not clear the index first.
index_keep(S, cfg_active, mt, fls, suffixes, partial, cfg, order) ==
    IF partial
    THEN IF cfg.given /\ cfg_active # cfg.value
         THEN [pass |-> [PassStart(S, mt) EXCEPT !.ret = "IndexerError"],
               config |-> cfg_active]
         ELSE [pass |-> _index(S, mt, fls, suffixes, partial, order), config |-> cfg_active]
    ELSE [pass |-> _index(S, mt, fls, suffixes, partial, order),
          config |-> set_config(cfg)]

\* Mutant of index: the config of a partial pass is not compared.
index_unchecked(S, cfg_active, mt, fls, suffixes, partial, cfg, order) ==
    IF partial
    THEN [pass |-> _index(S, mt, fls, suffixes, partial, order), config |-> cfg_active]
    ELSE [pass |-> _index(clear, mt, fls, suffixes, partial, order),
          config |-> set_config(cfg)]

\* IndexerMemory.index: the pass and the analyzer's config afterwards
index(S, cfg_active, mt, fls, suffixes, partial, cfg, order) ==
    IF partial
    THEN IF cfg.given /\ cfg_active # cfg.value
         THEN [pass |-> [PassStart(S, mt) EXCEPT !.ret = "IndexerError"],
               config |-> cfg_active]
         ELSE [pass |-> _index(S, mt, fls, suffixes, partial, order), config |-> cfg_active]
    ELSE [pass |-> _index(clear, mt, fls, suffixes, partial, order),
          config |-> set_config(cfg)]

\* `last` is the step a run of the indexer made: an indexing pass with its
\* arguments and "ok" or the exception raised, or a change of the files.
IndexerInit ==
    /\ docs2ids = clear.docs2ids
    /\ ids2docs = clear.ids2docs
    /\ table = clear.table
    /\ doc_freqs = clear.doc_freqs
    /\ keep_docs \in BOOLEAN
    /\ config = DEFAULT_CONFIG
    /\ mtimes = EmptyDict
    /\ files \in FileStates(0)
    /\ counts = <<0, 0, 0>>
    /\ last = [op |-> "__init__", partial |-> FALSE, suffixes |-> {}, ret |-> "ok"]
    /\ nops = 0
    /\ requests = NoRequests
    /\ default_nlp = Untouched

\* files are created, modified (the mtime moves on) and deleted between two
\* passes
FilesChangeWithin(max_steps) ==
    /\ nops < max_steps
    /\ last.op # "files"
    /\ \E written \in FileStates(nops + 1), deleted \in SUBSET (DOMAIN files) :
        /\ DOMAIN written \cap deleted = {}
        /\ DOMAIN written \cup deleted # {}
        /\ files' = [p \in ((DOMAIN files) \ deleted) \cup DOMAIN written |->
                        IF p \in DOMAIN written THEN written[p] ELSE files[p]]
    /\ last' = [op |-> "files", partial |-> FALSE, suffixes |-> {}, ret |-> "ok"]
    /\ nops' = nops + 1
    /\ UNCHANGED <<index_vars, keep_docs, config, mtimes, counts, requests, default_nlp>>

\* a call of index with arguments from the given sets
IndexCall(suffix_args, partial_args, cfg_args, max_steps) ==
    /\ nops < max_steps
    /\ \E suffixes \in suffix_args, partial \in partial_args, cfg \in cfg_args :
       \E order \in Orders(Unseen(mtimes, files, suffixes)) :
       \E r \in {index(IndexState, config, mtimes, files, suffixes, partial, cfg, order)} :
        /\ Becomes(r.pass.state)
        /\ mtimes' = r.pass.mtimes
        /\ config' = r.config
        /\ counts' = <<r.pass.added, r.pass.removed, r.pass.updated>>
        /\ last' = [op |-> "index", partial |-> partial, suffixes |-> suffixes,
                    ret |-> r.pass.ret]
    /\ nops' = nops + 1
    /\ UNCHANGED <<keep_docs, files, requests, default_nlp>>

FilesChange == FilesChangeWithin(MaxSteps)
IndexPass == IndexCall(SuffixArgs, BOOLEAN, ConfigArgs, MaxSteps)

IndexerNext ==
    \/ FilesChange
    \/ IndexPass

IndexerSpec == IndexerInit /\ [][IndexerNext]_vars

\* The indexer run incrementally only: index() with its default arguments
\* (partial=True, no suffixes, no config) after changes of the files.
IncrementalFilesChange == FilesChangeWithin(MaxIncrementalSteps)
IncrementalPass == IndexCall({{}}, {TRUE}, {NoConfig}, MaxIncrementalSteps)

IncrementalNext ==
    \/ IncrementalFilesChange
    \/ IncrementalPass

IncrementalSpec == IndexerInit /\ [][IncrementalNext]_vars

\* --------------------------------------------------------------- retriever

SORTBY_METHODS == {"path", "score"}

\* Retriever.groups: group name -> root paths. One group with one root and
\* one with both roots.
groups == [src |-> {"r"}, all |-> {"r", "s"}]
GroupNames == DOMAIN groups

\* str(root) and fspath(path), character by character
Chars(s) ==
    CASE s = "r/a.py" -> <<"r", "/", "a", ".", "p", "y">>
      [] s = "s/c.txt" -> <<"s", "/", "c", ".", "t", "x", "t">>
      [] s = "r.b/a.py" -> <<"r", ".", "b", "/", "a", ".", "p", "y">>
      [] s = "r" -> <<"r">>
      [] s = "s" -> <<"s">>

\* Mutant of startswith: the prefix has to end where a component of the path
\* ends.
startswith_component(s, prefix) ==
    /\ Len(prefix) <= Len(s)
    /\ SubSeq(s, 1, Len(prefix)) = prefix
    /\ (Len(s) = Len(prefix) \/ s[Len(prefix) + 1] = "/")

\* str.startswith
startswith(s, prefix) ==
    Len(prefix) <= Len(s) /\ SubSeq(s, 1, Len(prefix)) = prefix

\* The paths a list of hits may name: the documents, and one under a
\* directory whose name begins with the name of a root.
HitPaths == Paths \cup {"r.b/a.py"}

\* ord(c) of the characters of the paths
Ord(c) ==
    CASE c = "." -> 46
      [] c = "/" -> 47
      [] c = "a" -> 97
      [] c = "b" -> 98
      [] c = "c" -> 99
      [] c = "p" -> 112
      [] c = "r" -> 114
      [] c = "s" -> 115
      [] c = "t" -> 116
      [] c = "x" -> 120
      [] c = "y" -> 121

\* s < t for two strings
RECURSIVE StrLess(_, _)
StrLess(s, t) ==
    IF t = <<>> THEN FALSE
    ELSE IF s = <<>> THEN TRUE
    ELSE IF Head(s) = Head(t) THEN StrLess(Tail(s), Tail(t))
    ELSE Ord(Head(s)) < Ord(Head(t))

\* Path.parts of a relative path: its components, `part` being the one that
\* is being read
RECURSIVE Parts(_, _)
Parts(s, part) ==
    IF s = <<>> THEN <<part>>
    ELSE IF Head(s) = "/" THEN <<part>> \o Parts(Tail(s), <<>>)
    ELSE Parts(Tail(s), Append(part, Head(s)))

\* ps < qs for two lists of strings
RECURSIVE PartsLess(_, _)
PartsLess(ps, qs) ==
    IF qs = <<>> THEN FALSE
    ELSE IF ps = <<>> THEN TRUE
    ELSE IF Head(ps) = Head(qs) THEN PartsLess(Tail(ps), Tail(qs))
    ELSE StrLess(Head(ps), Head(qs))

\* Path.__lt__: two paths compare as their lists of parts
PathLess(p, q) == PartsLess(Parts(Chars(p), <<>>), Parts(Chars(q), <<>>))

\* The place of a path in the ascending order of Path.__lt__.
PathRank(path) == Cardinality({q \in HitPaths : PathLess(q, path)})

\* str.lower() on the tokens of the model.
Lower(t) == CASE t = "A" -> "a" [] OTHER -> t

\* 1000 * log10(n), rounded
Log10Milli(n) ==
    CASE n = 1 -> 0
      [] n = 2 -> 301
      [] n = 3 -> 477
      [] n = 4 -> 602

\* the value of tf * log10(num_docs / df), in thousandths
TfidfMilli(score) == score.tf * (Log10Milli(score.num_docs) - Log10Milli(score.df))

RECURSIVE SumMilli(_, _)
SumMilli(terms, k) ==
    IF k > Len(terms) THEN 0 ELSE TfidfMilli(terms[k]) + SumMilli(terms, k + 1)

\* The number a score of get_paths / get_paths_op is compared by.
ScoreValue(scoring, score) ==
    IF scoring = "tfidf" THEN TfidfMilli(score) ELSE score
ScoreValueOp(scoring, score) ==
    IF scoring = "tfidf" THEN SumMilli(score, 1) ELSE score

\* sorted(): the indices in ascending order of their keys, equal keys in the
\* order of the input
RECURSIVE SortedIndices(_, _)
SortedIndices(rem, keys) ==
    IF rem = {}
    THEN <<>>
    ELSE LET m == CHOOSE i \in rem :
                    \A j \in rem : keys[i] < keys[j] \/ (keys[i] = keys[j] /\ i <= j)
         IN <<m>> \o SortedIndices(rem \ {m}, keys)

\* _sorted(groupname, paths, sortby), value[i] being the number that the score
\* of paths[i] is compared by. The filter is a generator that sorted()
\* consumes: fspath(None) raises its TypeError there, outside the try block,
\* and only when the group has a root to compare with.
_sorted(groupname, paths, sortby, value) ==
    LET grouppaths == groups[groupname]
        kept == {i \in DOMAIN paths :
                    \E gp \in grouppaths : startswith(Chars(paths[i][1]), Chars(gp))}
        keys == [i \in DOMAIN paths |->
                    IF sortby = "path" THEN PathRank(paths[i][1]) ELSE 0 - value[i]]
        order == SortedIndices(kept, keys)
    IN IF grouppaths # {} /\ \E i \in DOMAIN paths : paths[i][1] = None
       THEN [ret |-> "TypeError", out |-> <<>>]
       ELSE [ret |-> "list", out |-> [k \in DOMAIN order |-> paths[order[k]]]]

search_token(S, groupname, field, token, sortby, scoring) ==
    LET r == get_paths(S, field, token, scoring)
        value == [i \in DOMAIN r.out |-> ScoreValue(scoring, r.out[i][2])]
        s == _sorted(groupname, r.out, sortby, value)
    IN [table |-> r.table, ret |-> s.ret, out |-> s.out]

\* search_tokens_and / search_tokens_or: get_paths_op with set.intersection /
\* set.union, then _sorted
search_tokens(S, groupname, field, tokens, op, sortby, scoring) ==
    LET r == get_paths_op(S, field, tokens, op, scoring)
        value == [i \in DOMAIN r.out |-> ScoreValueOp(scoring, r.out[i][2])]
        s == _sorted(groupname, r.out, sortby, value)
    IN IF r.ret # "paths"
       THEN [table |-> r.table, ret |-> r.ret, out |-> <<>>]
       ELSE [table |-> r.table, ret |-> s.ret, out |-> s.out]

search_tokens_and(S, groupname, field, tokens, sortby, scoring) ==
    search_tokens(S, groupname, field, tokens, "and", sortby, scoring)

search_tokens_or(S, groupname, field, tokens, sortby, scoring) ==
    search_tokens(S, groupname, field, tokens, "or", sortby, scoring)

\* Query texts: words separated by single spaces, given as the list of the
\* words; the empty list is the empty string.
Texts == TokenSeqs

\* analyzer.query(field, text): the preprocessor applied to the text. The
\* words of the model are their own lemmas.
query(cfg, field, text) ==
    IF Len(text) = 0
    THEN <<>>
    ELSE [i \in DOMAIN text |->
            IF cfg[field].case_sensitive THEN text[i] ELSE Lower(text[i])]

\* the op arguments of search_text: the two methods and one that is neither
OpArgs == OP_METHODS \cup {"not"}

search_text(S, cfg, groupname, field, text, op, sortby, scoring) ==
    LET tokens == query(cfg, field, text) IN
    IF op \notin OP_METHODS
    THEN [table |-> S.table, ret |-> "ValueError", out |-> <<>>]
    ELSE IF Len(tokens) = 1
    THEN search_token(S, groupname, field, tokens[1], sortby, scoring)
    ELSE IF op = "and"
    THEN search_tokens_and(S, groupname, field, tokens, sortby, scoring)
    ELSE search_tokens_or(S, groupname, field, tokens, sortby, scoring)

\* the number of calls of a run up to which it searches
MaxSearchSteps == 3
CanSearch == nops < MaxSearchSteps

\* A search leaves the index as it is, but for what get_docs does to the table.
Searched(name, r) ==
    /\ table' = r.table
    /\ last' = [op |-> name, path |-> None, ret |-> r.ret]
    /\ UNCHANGED <<docs2ids, ids2docs, doc_freqs>>
    /\ Called

SearchToken ==
    /\ CanSearch
    /\ \E groupname \in GroupNames, field \in Fields, token \in QueryTokens,
          sortby \in SORTBY_METHODS, scoring \in SCORING_METHODS :
        Searched("search_token",
                 search_token(IndexState, groupname, field, token, sortby, scoring))

SearchTokensAnd ==
    /\ CanSearch
    /\ \E groupname \in GroupNames, field \in Fields, tokens \in TokenSeqs,
          sortby \in SORTBY_METHODS, scoring \in SCORING_METHODS :
        Searched("search_tokens_and",
                 search_tokens_and(IndexState, groupname, field, tokens, sortby, scoring))

SearchTokensOr ==
    /\ CanSearch
    /\ \E groupname \in GroupNames, field \in Fields, tokens \in TokenSeqs,
          sortby \in SORTBY_METHODS, scoring \in SCORING_METHODS :
        Searched("search_tokens_or",
                 search_tokens_or(IndexState, groupname, field, tokens, sortby, scoring))

SearchText ==
    /\ CanSearch
    /\ \E groupname \in GroupNames, field \in Fields, text \in Texts, op \in OpArgs,
          sortby \in SORTBY_METHODS, scoring \in SCORING_METHODS :
        Searched("search_text",
                 search_text(IndexState, config, groupname, field, text, op, sortby, scoring))

SearchOps == {"search_token", "search_tokens_and", "search_tokens_or", "search_text"}

\* Documents are added, removed and updated, and searched in between.
RetrieverNext ==
    \/ AddDocumentFreqs
    \/ AddDocument
    \/ RemoveDocument
    \/ UpdateDocument
    \/ SearchToken
    \/ SearchTokensAnd
    \/ SearchTokensOr
    \/ SearchText

RetrieverSpec == Init /\ [][RetrieverNext]_vars

\* --------------------------------------------- search_text, op valid

\* search_text(groupname, field, text, op, sortby, scoring) with op one of
\* OP_METHODS; last keeps the arguments and the list returned.
MaxSearchTextSteps == 2

SearchTextValid ==
    /\ nops < MaxSearchTextSteps
    /\ \E groupname \in GroupNames, field \in Fields, text \in Texts,
          op \in OP_METHODS, sortby \in SORTBY_METHODS, scoring \in SCORING_METHODS :
        \E r \in {search_text(IndexState, config, groupname, field, text, op,
                              sortby, scoring)} :
            /\ table' = r.table
            /\ last' = [op |-> "search_text", path |-> None, ret |-> r.ret,
                        groupname |-> groupname, field |-> field, text |-> text,
                        setop |-> op, sortby |-> sortby, scoring |-> scoring,
                        out |-> r.out]
    /\ UNCHANGED <<docs2ids, ids2docs, doc_freqs>>
    /\ Called

\* the adds and removes of a run that searches
SearchTextAdd == nops < MaxSearchTextSteps /\ AddDocumentFreqs
SearchTextRemove == nops < MaxSearchTextSteps /\ RemoveDocument

SearchTextNext ==
    \/ SearchTextAdd
    \/ SearchTextRemove
    \/ SearchTextValid

SearchTextSpec == Init /\ [][SearchTextNext]_vars

\* ------------------------------------------------- _sorted on its own

\* the number of hits in a list given to _sorted
MaxHits == 3

\* the scores of the hits
HitScores == {0, 1}

\* Lists of hits as get_paths and get_paths_op yield them: (path, score) with
\* no live path twice; the path of a tombstoned document is None.
HitLists ==
    UNION {{h \in [1..n -> (HitPaths \cup {None}) \X HitScores] :
                \A i, j \in 1..n : (h[i][1] = h[j][1] /\ i # j) => h[i][1] = None} :
           n \in 0..MaxHits}

\* The arguments of a call of _sorted that is about to be made.
SortedInit ==
    /\ docs2ids = clear.docs2ids
    /\ ids2docs = clear.ids2docs
    /\ table = clear.table
    /\ doc_freqs = clear.doc_freqs
    /\ keep_docs = TRUE
    /\ config = DEFAULT_CONFIG
    /\ mtimes = EmptyDict
    /\ files = EmptyDict
    /\ counts = <<0, 0, 0>>
    /\ \E groupname \in GroupNames, sortby \in SORTBY_METHODS, paths \in HitLists :
        last = [op |-> "hits", groupname |-> groupname, sortby |-> sortby,
                paths |-> paths, ret |-> "None", out |-> <<>>]
    /\ nops = 0
    /\ requests = NoRequests
    /\ default_nlp = Untouched

\* _sorted(groupname, paths, sortby) is called and returns or raises
SortHits ==
    /\ last.op = "hits"
    /\ \E r \in {_sorted(last.groupname, last.paths, last.sortby,
                          [i \in DOMAIN last.paths |-> last.paths[i][2]])} :
        last' = [last EXCEPT !.op = "_sorted", !.ret = r.ret, !.out = r.out]
    /\ nops' = nops + 1
    /\ UNCHANGED <<index_vars, keep_docs, config, mtimes, files, counts, requests, default_nlp>>

SortedNext == SortHits

SortedSpec == SortedInit /\ [][SortedNext]_vars

\* ------------------------------------------------------ plugin registry

\* cls.lexers: the plugins in the order in which they are registered
PluginOrder == <<"P1", "P2", "P3">>

\* the suffixes that plugins declare
SuffixNames == {".x", ".y"}

\* obj.suffixes in its iteration order: a list, or a set in some order; a
\* plugin that cannot be imported registers nothing
SuffixLists ==
    UNION {{l \in [1..n -> SuffixNames] : \A i, j \in 1..n : l[i] = l[j] => i = j} :
           n \in 0..Cardinality(SuffixNames)}

\* for suffix in obj.suffixes, from the k-th suffix on. The list iterated is
\* that of the plugin being registered; `obj` is what the name obj is bound
\* to, and the try block rebinds it to the plugin that holds the suffix.
RECURSIVE RegisterSuffixes(_, _, _, _)
RegisterSuffixes(tokenizers, obj, suffixes, k) ==
    IF k > Len(suffixes)
    THEN tokenizers
    ELSE IF suffixes[k] \in DOMAIN tokenizers
    THEN RegisterSuffixes(tokenizers, tokenizers[suffixes[k]], suffixes, k + 1)
    ELSE RegisterSuffixes(Put(tokenizers, suffixes[k], obj), obj, suffixes, k + 1)

\* for modname, clsname in cls.lexers.items(), from the k-th plugin on
RECURSIVE RegisterPlugins(_, _, _)
RegisterPlugins(tokenizers, declared, k) ==
    IF k > Len(PluginOrder)
    THEN tokenizers
    ELSE RegisterPlugins(
            RegisterSuffixes(tokenizers, PluginOrder[k], declared[PluginOrder[k]], 1),
            declared, k + 1)

\* _get_tokenizers: suffix -> plugin, given the suffixes each plugin declares
_get_tokenizers(declared) == RegisterPlugins(EmptyDict, declared, 1)

\* The plugins with the suffixes they declare, before the registry is built.
PluginInit ==
    /\ docs2ids = clear.docs2ids
    /\ ids2docs = clear.ids2docs
    /\ table = clear.table
    /\ doc_freqs = clear.doc_freqs
    /\ keep_docs = TRUE
    /\ config = DEFAULT_CONFIG
    /\ mtimes = EmptyDict
    /\ files = EmptyDict
    /\ counts = <<0, 0, 0>>
    /\ \E declared \in [{PluginOrder[k] : k \in DOMAIN PluginOrder} -> SuffixLists] :
        last = [op |-> "plugins", declared |-> declared, tokenizers |-> EmptyDict]
    /\ nops = 0
    /\ requests = NoRequests
    /\ default_nlp = Untouched

\* clear() builds the registry
GetTokenizers ==
    /\ last.op = "plugins"
    /\ last' = [last EXCEPT !.op = "_get_tokenizers",
                             !.tokenizers = _get_tokenizers(last.declared)]
    /\ nops' = nops + 1
    /\ UNCHANGED <<index_vars, keep_docs, config, mtimes, files, counts, requests, default_nlp>>

PluginNext == GetTokenizers

PluginSpec == PluginInit /\ [][PluginNext]_vars

\* ----------------------------------------------------------- preprocessor

\* A raw string is the list of the words that single spaces separate in it:
\* "" is <<"">>, "a" is <<"a">>, " A" is <<"", "A">>.
Words == {"a", "A", ""}
EmptyStr == <<"">>

\* the number of words of a raw string
MaxWords == 2
RawStrings == UNION {[1..n -> Words] : n \in 1..MaxWords}

\* The configs of a field that pass the assertion of the preprocessor: no
\* lemmatization without tokenization.
FieldConfigs ==
    {c \in [tokenize : BOOLEAN, case_sensitive : BOOLEAN, lemmatize : BOOLEAN] :
        c.tokenize \/ ~c.lemmatize}

\* str.split(" ")
Split(str) == str

\* The tokens of the spaCy document of a string: its words, white space left
\* out.
NlpTokens(str) == SelectSeq(str, LAMBDA w : w # "")

\* tok.lemma_: the words of the model are their own lemmas
Lemma(w) == w

\* str2lower(s), word by word
str2lower(str) == [i \in DOMAIN str |-> Lower(str[i])]

\* tok.lemma_ / tok.text / tok.lemma_.lower() / tok.lower_ of every token
TokenTerms(cfg, toks) ==
    IF cfg.case_sensitive
    THEN IF cfg.lemmatize THEN [i \in DOMAIN toks |-> Lemma(toks[i])] ELSE toks
    ELSE IF cfg.lemmatize
         THEN [i \in DOMAIN toks |-> Lower(Lemma(toks[i]))]
         ELSE [i \in DOMAIN toks |-> Lower(toks[i])]

\* Preprocess.text(config, text): the list of terms of a string
Preprocess_text(cfg, str) ==
    IF str = EmptyStr
    THEN <<>>
    ELSE IF cfg.tokenize
    THEN TokenTerms(cfg, NlpTokens(str))
    ELSE IF cfg.case_sensitive
    THEN Split(str)
    ELSE Split(str2lower(str))

\* Counter.update(tokens), from the k-th token on; a counter is a function
\* term -> count
RECURSIVE CounterUpdate(_, _, _)
CounterUpdate(freqs, toks, k) ==
    IF k > Len(toks)
    THEN freqs
    ELSE CounterUpdate(Put(freqs, toks[k],
                           IF toks[k] \in DOMAIN freqs THEN freqs[toks[k]] + 1 ELSE 1),
                       toks, k + 1)

\* Mutant of BatchOne: a string is split without being lower-cased.
BatchOneCased(cfg, str, freqs) ==
    IF cfg.tokenize
    THEN CounterUpdate(freqs, TokenTerms(cfg, NlpTokens(str)), 1)
    ELSE IF str = EmptyStr
    THEN freqs
    ELSE CounterUpdate(freqs, Split(str), 1)

\* What one pass of the loops of Preprocess.batch does with one string.
BatchOne(cfg, str, freqs) ==
    IF cfg.tokenize
    THEN CounterUpdate(freqs, TokenTerms(cfg, NlpTokens(str)), 1)
    ELSE IF str = EmptyStr
    THEN freqs
    ELSE IF cfg.case_sensitive
    THEN CounterUpdate(freqs, Split(str), 1)
    ELSE CounterUpdate(freqs, Split(str2lower(str)), 1)

\* Preprocess.batch(config, texts, freqs), from the k-th string on: the
\* counter afterwards
RECURSIVE Preprocess_batch(_, _, _, _)
Preprocess_batch(cfg, strs, freqs, k) ==
    IF k > Len(strs)
    THEN freqs
    ELSE Preprocess_batch(cfg, strs, BatchOne(cfg, strs[k], freqs), k + 1)

\* the number of strings of a batch
MaxTexts == 2
TextLists == UNION {[1..n -> RawStrings] : n \in 0..MaxTexts}

\* the counters a batch is added to
Counters == {EmptyDict, [t \in {"a"} |-> 1]}

PreprocessInit ==
    /\ docs2ids = clear.docs2ids
    /\ ids2docs = clear.ids2docs
    /\ table = clear.table
    /\ doc_freqs = clear.doc_freqs
    /\ keep_docs = TRUE
    /\ config = DEFAULT_CONFIG
    /\ mtimes = EmptyDict
    /\ files = EmptyDict
    /\ counts = <<0, 0, 0>>
    /\ \E cfg \in FieldConfigs, texts \in TextLists, freqs \in Counters :
        last = [op |-> "texts", fieldconfig |-> cfg, texts |-> texts,
                before |-> freqs, freqs |-> freqs]
    /\ nops = 0
    /\ requests = NoRequests
    /\ default_nlp = Untouched

\* preprocess.batch(fieldconfig, texts, freqs)
Batch ==
    /\ last.op = "texts"
    /\ last' = [last EXCEPT !.op = "batch",
                             !.freqs = Preprocess_batch(last.fieldconfig, last.texts,
                                                        last.before, 1)]
    /\ nops' = nops + 1
    /\ UNCHANGED <<index_vars, keep_docs, config, mtimes, files, counts, requests, default_nlp>>

PreprocessNext == Batch

PreprocessSpec == PreprocessInit /\ [][PreprocessNext]_vars

\* ------------------------------------------------------- tokenizer plugin

\* How the raw lexing of a file (_tokenize) ends: exhausted, with an
\* exception of the plugin's exceptions table, or with another exception.
LexEnds == {"done", "listed", "unlisted"}

\* the number of (field, token) pairs a raw lexing yields
MaxPairs == 2

\* The (field, token) pairs of the model: those whose terms under the default
\* config are terms of the model's vocabulary.
LexPairs ==
    {pr \in Fields \X {<<"a">>, <<"A">>, EmptyStr} :
        \A i \in DOMAIN Preprocess_text(DEFAULT_CONFIG[pr[1]], pr[2]) :
            Preprocess_text(DEFAULT_CONFIG[pr[1]], pr[2])[i] \in Tokens}

\* A raw lexing: the pairs yielded before it ends, and how it ends.
RawLexings ==
    [pairs : UNION {[1..n -> LexPairs] : n \in 0..MaxPairs}, end : LexEnds]

\* tokens[field]: the raw tokens gathered for a field, in the order yielded
TextsOf(pairs) == [i \in DOMAIN pairs |-> pairs[i][2]]
FieldTexts(pairs, field) == TextsOf(SelectSeq(pairs, LAMBDA pr : pr[1] = field))

\* TokenizerPlugin.tokenize(path): an exception that is not listed is raised
\* again; a listed one is logged, and the tokens gathered before it are
\* counted like those of a lexing that ended.
tokenize(raw, cfg) ==
    IF raw.end = "unlisted"
    THEN [ret |-> "raise", freqs |-> EmptyDict]
    ELSE [ret |-> "dict",
          freqs |-> [f \in DOMAIN cfg |->
                        Preprocess_batch(cfg[f], FieldTexts(raw.pairs, f),
                                         EmptyDict, 1)]]

\* CodeAnalyzer.analyze(path) for a file a plugin claims: the plugin's
\* tokenize.
analyze(raw, cfg) == tokenize(raw, cfg)

\* InvertedIndexMemory.add_document(path) for a file whose raw lexing is raw:
\* the analysis comes first, and an exception of it leaves before the index is
\* touched.
add_document_lexed(S, path, raw, cfg) ==
    IF analyze(raw, cfg).ret = "raise"
    THEN Outcome(S, "Exception")
    ELSE add_document(S, path, [ok |-> TRUE, freqs |-> analyze(raw, cfg).freqs])

\* the number of calls of a behaviour that add a lexed file
MaxLexSteps == 2

AddLexed ==
    /\ nops < MaxLexSteps
    /\ \E path \in Paths, raw \in RawLexings :
        \E r \in {add_document_lexed(IndexState, path, raw, config)} :
            /\ Becomes(r.state)
            /\ last' = [op |-> "add_lexed", path |-> path, ret |-> r.ret,
                        raw |-> raw]
    /\ Called

LexNext ==
    \/ AddLexed
    \/ RemoveDocument

LexSpec == Init /\ [][LexNext]_vars

\* ---------------------------------------------------------- web front-end

\* The server (app.run) handles every request on a thread of its own, so the
\* handlers of several requests run interleaved. A handler is followed from
\* its call of indexer.index or retriever.search_text to the return of that
\* call.

\* the number of steps of the handlers in a behaviour
MaxRequestSteps == 4

Handled == [op |-> "request", partial |-> FALSE, suffixes |-> {}, ret |-> "ok"]

\* POST /reindex: the handler calls indexer.index; nothing is acquired before
\* the call.
ReindexEnter(r) ==
    /\ nops < MaxRequestSteps
    /\ requests[r] = "idle"
    /\ requests' = [requests EXCEPT ![r] = "indexing"]
    /\ last' = Handled
    /\ nops' = nops + 1
    /\ UNCHANGED <<index_vars, keep_docs, config, mtimes, files, counts, default_nlp>>

\* indexer.index returns to the handler of /reindex (or raises IndexerError,
\* which the handler reports).
ReindexReturn(r) ==
    /\ nops < MaxRequestSteps
    /\ requests[r] = "indexing"
    /\ \E suffixes \in SuffixArgs, partial \in BOOLEAN, cfg \in ConfigArgs \ {NoConfig} :
       \E order \in Orders(Unseen(mtimes, files, suffixes)) :
       \E res \in {index(IndexState, config, mtimes, files, suffixes, partial, cfg, order)} :
        /\ Becomes(res.pass.state)
        /\ mtimes' = res.pass.mtimes
        /\ config' = res.config
        /\ counts' = <<res.pass.added, res.pass.removed, res.pass.updated>>
        /\ last' = [op |-> "index", partial |-> partial, suffixes |-> suffixes,
                    ret |-> res.pass.ret]
    /\ requests' = [requests EXCEPT ![r] = "idle"]
    /\ nops' = nops + 1
    /\ UNCHANGED <<keep_docs, files, default_nlp>>

\* POST / with a text: the handler calls retriever.search_text.
SearchEnter(r) ==
    /\ nops < MaxRequestSteps
    /\ requests[r] = "idle"
    /\ requests' = [requests EXCEPT ![r] = "searching"]
    /\ last' = Handled
    /\ nops' = nops + 1
    /\ UNCHANGED <<index_vars, keep_docs, config, mtimes, files, counts, default_nlp>>

\* retriever.search_text returns to the handler of /.
SearchReturn(r) ==
    /\ nops < MaxRequestSteps
    /\ requests[r] = "searching"
    /\ \E groupname \in GroupNames, field \in Fields, text \in Texts, op \in OP_METHODS,
          sortby \in SORTBY_METHODS, scoring \in SCORING_METHODS :
       \E res \in {search_text(IndexState, config, groupname, field, text, op,
                               sortby, scoring)} :
        /\ table' = res.table
        /\ last' = [op |-> "search_text", partial |-> FALSE, suffixes |-> {},
                    ret |-> res.ret]
    /\ requests' = [requests EXCEPT ![r] = "idle"]
    /\ nops' = nops + 1
    /\ UNCHANGED <<docs2ids, ids2docs, doc_freqs, keep_docs, config, mtimes, files,
                   counts, default_nlp>>

WsgiNext ==
    \E r \in RequestIds :
        \/ ReindexEnter(r)
        \/ ReindexReturn(r)
        \/ SearchEnter(r)
        \/ SearchReturn(r)

WsgiSpec == IndexerInit /\ [][WsgiNext]_vars

\* ------------------------------------------------ passes that can fail

\* the number of passes and changes of the files in a behaviour
MaxFaultySteps == 3

\* The files as a pass finds them when the analysis of some of them raises
\* during this pass (the files themselves are as they were).
Unreadable(fls, failing) ==
    [f \in DOMAIN fls |->
        IF f \in failing THEN [fls[f] EXCEPT !.content = Raises] ELSE fls[f]]

\* index(partial=..) while the analysis of the files of failing raises
FaultyPass ==
    /\ nops < MaxFaultySteps
    /\ \E failing \in SUBSET (DOMAIN files), partial \in BOOLEAN :
       \E order \in Orders(Unseen(mtimes, files, {})) :
       \E r \in {index(IndexState, config, mtimes, Unreadable(files, failing), {},
                        partial, NoConfig, order)} :
        /\ Becomes(r.pass.state)
        /\ mtimes' = r.pass.mtimes
        /\ config' = r.config
        /\ counts' = <<r.pass.added, r.pass.removed, r.pass.updated>>
        /\ last' = [op |-> "index", partial |-> partial, suffixes |-> {},
                    ret |-> r.pass.ret]
    /\ nops' = nops + 1
    /\ UNCHANGED <<keep_docs, files, requests, default_nlp>>

FaultyFilesChange == FilesChangeWithin(MaxFaultySteps)

FaultyNext ==
    \/ FaultyFilesChange
    \/ FaultyPass

FaultySpec == IndexerInit /\ [][FaultyNext]_vars

\* ------------------------------------------------- get_paths_op, consumed

\* list(get_paths_op(field, tokens, setop, scoring)): last.out is what the
\* generator yields.
PathsOp ==
    /\ CanCall
    /\ \E field \in Fields, tokens \in TokenSeqs, op \in OP_METHODS,
          scoring \in SCORING_METHODS :
        \E r \in {get_paths_op(IndexState, field, tokens, op, scoring)} :
            /\ table' = r.table
            /\ last' = [op |-> "get_paths_op", path |-> None, ret |-> r.ret,
                        field |-> field, tokens |-> tokens, setop |-> op,
                        scoring |-> scoring, out |-> r.out]
    /\ UNCHANGED <<docs2ids, ids2docs, doc_freqs>>
    /\ Called

PathsOpNext ==
    \/ AddDocumentFreqs
    \/ RemoveDocument
    \/ PathsOp

PathsOpSpec == Init /\ [][PathsOpNext]_vars

\* ------------------------------------------------------------ full passes

\* index(partial=False, config=cfg) after whatever passes and changes of the
\* files; last.config is the config passed in.
FullPass ==
    /\ nops < MaxSteps
    /\ \E suffixes \in SuffixArgs, cfg \in ConfigArgs :
       \E r \in {index(IndexState, config, mtimes, files, suffixes, FALSE, cfg, <<>>)} :
        /\ Becomes(r.pass.state)
        /\ mtimes' = r.pass.mtimes
        /\ config' = r.config
        /\ counts' = <<r.pass.added, r.pass.removed, r.pass.updated>>
        /\ last' = [op |-> "index", partial |-> FALSE, suffixes |-> suffixes,
                    ret |-> r.pass.ret, config |-> cfg]
    /\ nops' = nops + 1
    /\ UNCHANGED <<keep_docs, files, requests, default_nlp>>

PartialPass == IndexCall(SuffixArgs, {TRUE}, ConfigArgs, MaxSteps)
RebuildFilesChange == FilesChangeWithin(MaxSteps)

RebuildNext ==
    \/ RebuildFilesChange
    \/ PartialPass
    \/ FullPass

RebuildSpec == IndexerInit /\ [][RebuildNext]_vars

\* --------------------------------------------------------------- traversal

\* A root r on disk. A path is the sequence of its components:
\*   r/.git/config   r/.gitignore   r/a.py   r/d/.gitignore   r/d/a.py
\* The two .gitignore files exist or not, and hold patterns.
Root == <<"r">>
FsDirs == {<<"r">>, <<"r", ".git">>, <<"r", "d">>}

\* path.iterdir(): the names in a directory
Entries(dir) ==
    CASE dir = <<"r">> -> <<".git", ".gitignore", "a.py", "d">>
      [] dir = <<"r", "d">> -> <<".gitignore", "a.py">>
      [] dir = <<"r", ".git">> -> <<"config">>
      [] OTHER -> <<>>

\* the directories that can hold a .gitignore
IgnoreDirs == {<<"r">>, <<"r", "d">>}

\* A pattern is a name, or a name negated with "!": it matches every path with
\* a component of that name (and so everything below a directory it matches).
PatternNames == {"a.py", "d", ".git"}
Patterns == [include : BOOLEAN, name : PatternNames]

\* the number of lines of a .gitignore
MaxPatterns == 2
PatternLists == UNION {[1..n -> Patterns] : n \in 0..MaxPatterns}

NoIgnoreFile == [present |-> FALSE, patterns |-> <<>>]
IgnoreFiles == {NoIgnoreFile} \cup {[present |-> TRUE, patterns |-> ps] : ps \in PatternLists}

\* defaultignore=[".git"]
defaultignore == <<[include |-> TRUE, name |-> ".git"]>>

\* whether the path is on disk
OnDisk(ign, node) ==
    IF node[Len(node)] = ".gitignore"
    THEN ign[SubSeq(node, 1, Len(node) - 1)].present
    ELSE TRUE

PatternMatches(pat, node) == \E i \in DOMAIN node : node[i] = pat.name

\* PathSpec.match_file(item): the last pattern that matches decides, from the
\* k-th pattern on
RECURSIVE match_file(_, _, _, _)
match_file(patterns, node, k, matched) ==
    IF k > Len(patterns)
    THEN matched
    ELSE match_file(patterns, node, k + 1,
                    IF PatternMatches(patterns[k], node)
                    THEN patterns[k].include
                    ELSE matched)

\* Mutant of Compose: the patterns of the directory follow the inherited ones.
ComposeInheritedFirst(own, inherited) == inherited \o own

\* cpatterns = list(map(GitWildMatchPattern, patterns)) + spec.patterns
Compose(own, inherited) == own \o inherited

\* the spec used inside a directory, given the one it is entered with
SpecInside(ign, dir, spec) ==
    IF dir \in IgnoreDirs /\ ign[dir].present
    THEN Compose(ign[dir].patterns, spec)
    ELSE spec

\* for item in path.iterdir(): ..., from the k-th entry on, with the spec used
\* inside the directory
RECURSIVE IterItems(_, _, _, _)
RECURSIVE _gitignore_iterdir(_, _, _)
IterItems(ign, dir, spec, k) ==
    IF k > Len(Entries(dir))
    THEN <<>>
    ELSE (IF ~OnDisk(ign, Append(dir, Entries(dir)[k]))
               \/ match_file(spec, Append(dir, Entries(dir)[k]), 1, FALSE)
          THEN <<>>
          ELSE IF Append(dir, Entries(dir)[k]) \in FsDirs
          THEN _gitignore_iterdir(ign, Append(dir, Entries(dir)[k]), spec)
          ELSE <<Append(dir, Entries(dir)[k])>>)
         \o IterItems(ign, dir, spec, k + 1)

_gitignore_iterdir(ign, path, spec) ==
    IterItems(ign, path, SpecInside(ign, path, spec), 1)

gitignore_iterdir(ign, path) == _gitignore_iterdir(ign, path, defaultignore)

\* path.rglob("*"): everything below the path, directories as well as files
RECURSIVE rglob(_, _, _)
rglob(ign, dir, k) ==
    IF k > Len(Entries(dir))
    THEN <<>>
    ELSE (IF ~OnDisk(ign, Append(dir, Entries(dir)[k]))
          THEN <<>>
          ELSE <<Append(dir, Entries(dir)[k])>>
               \o rglob(ign, Append(dir, Entries(dir)[k]), 1))
         \o rglob(ign, dir, k + 1)

\* filename.suffix
NodeSuffix(node) ==
    CASE node[Len(node)] = "a.py" -> ".py"
      [] OTHER -> ""

\* The paths the loop of Indexer.index stats and diffs: what the iterator
\* yields, less the paths with another suffix when suffixes are given.
Candidates(ign, gitignore, suffixes) ==
    SelectSeq(IF gitignore THEN gitignore_iterdir(ign, Root) ELSE rglob(ign, Root, 1),
              LAMBDA node : suffixes = {} \/ NodeSuffix(node) \in suffixes)

TraversalInit ==
    /\ docs2ids = clear.docs2ids
    /\ ids2docs = clear.ids2docs
    /\ table = clear.table
    /\ doc_freqs = clear.doc_freqs
    /\ keep_docs = TRUE
    /\ config = DEFAULT_CONFIG
    /\ mtimes = EmptyDict
    /\ files = EmptyDict
    /\ counts = <<0, 0, 0>>
    /\ \E ign \in [IgnoreDirs -> IgnoreFiles], gitignore \in BOOLEAN,
          suffixes \in SuffixArgs :
        last = [op |-> "tree", ignores |-> ign, gitignore |-> gitignore,
                suffixes |-> suffixes, out |-> <<>>]
    /\ nops = 0
    /\ requests = NoRequests
    /\ default_nlp = Untouched

\* the traversal of a pass
Traverse ==
    /\ last.op = "tree"
    /\ last' = [last EXCEPT !.op = "traverse",
                             !.out = Candidates(last.ignores, last.gitignore,
                                                last.suffixes)]
    /\ nops' = nops + 1
    /\ UNCHANGED <<index_vars, keep_docs, config, mtimes, files, counts, requests,
                   default_nlp>>

TraversalNext == Traverse

TraversalSpec == TraversalInit /\ [][TraversalNext]_vars

\* ------------------------------------------------------ /reindex (legacy)

\* the number of requests and restarts in a behaviour
MaxReindexSteps == 3

\* nlp_config = DEFAULT_NLP_CONFIG with the two flags of the form written
\* into it
Flagged(cs_code, cs_text) ==
    [DEFAULT_CONFIG EXCEPT !.code.case_sensitive = cs_code,
                           !.text.case_sensitive = cs_text]
FlagConfigs == {Flagged(c, t) : c, t \in BOOLEAN}

\* self.config of the index when the request has written its flags: the
\* shared dict shows them, a dict of its own does not.
ConfigSeen(flags) == IF default_nlp.shared THEN flags ELSE config

\* Indexer.index(suffixes, partial, gitignore, config) of src/utils.py, called
\* with the shared dict as config: a full pass clears the index and keeps the
\* dict passed in as the config of the index; a partial pass compares the
\* config of the index with the dict passed in.
Indexer_index(S, cfg_seen, mt, fls, suffixes, partial, flags, order) ==
    IF partial
    THEN IF cfg_seen # flags
         THEN [pass |-> [PassStart(S, mt) EXCEPT !.ret = "IndexerError"],
               config |-> cfg_seen, shared |-> default_nlp.shared]
         ELSE [pass |-> _index(S, mt, fls, suffixes, partial, order),
               config |-> cfg_seen, shared |-> default_nlp.shared]
    ELSE [pass |-> _index(clear, mt, fls, suffixes, partial, order),
          config |-> flags, shared |-> TRUE]

\* last.built: the config the tokenizers had when the content of the index
\* was built, that is at the last full pass.
ReindexInit ==
    /\ docs2ids = clear.docs2ids
    /\ ids2docs = clear.ids2docs
    /\ table = clear.table
    /\ doc_freqs = clear.doc_freqs
    /\ keep_docs = TRUE
    /\ config = DEFAULT_CONFIG
    /\ mtimes = EmptyDict
    /\ files \in FileStates(0)
    /\ counts = <<0, 0, 0>>
    /\ last = [op |-> "__init__", partial |-> FALSE, suffixes |-> {}, ret |-> "ok",
               flags |-> DEFAULT_CONFIG, built |-> DEFAULT_CONFIG]
    /\ nops = 0
    /\ requests = NoRequests
    /\ default_nlp = Untouched

\* POST /reindex
Reindex ==
    /\ nops < MaxReindexSteps
    /\ \E partial \in BOOLEAN, flags \in FlagConfigs :
       \E order \in Orders(Unseen(mtimes, files, {})) :
       \E r \in {Indexer_index(IndexState, ConfigSeen(flags), mtimes, files, {},
                                partial, flags, order)} :
        /\ Becomes(r.pass.state)
        /\ mtimes' = r.pass.mtimes
        /\ config' = r.config
        /\ default_nlp' = [value |-> flags, shared |-> r.shared]
        /\ counts' = <<r.pass.added, r.pass.removed, r.pass.updated>>
        /\ last' = [op |-> "reindex", partial |-> partial, suffixes |-> {},
                    ret |-> r.pass.ret, flags |-> flags,
                    built |-> IF partial THEN last.built ELSE flags]
    /\ nops' = nops + 1
    /\ UNCHANGED <<keep_docs, files, requests>>

\* The process ends after a request that saved the index, and a new process
\* loads it (read_index): the module default is as imported, and the config
\* of the index is the unpickled copy.
Restart ==
    /\ nops < MaxReindexSteps
    /\ last.op = "reindex"
    /\ last.ret = "ok"
    /\ default_nlp' = [value |-> DEFAULT_CONFIG, shared |-> FALSE]
    /\ last' = [last EXCEPT !.op = "read_index"]
    /\ nops' = nops + 1
    /\ UNCHANGED <<index_vars, keep_docs, config, mtimes, files, counts, requests>>

ReindexNext ==
    \/ Reindex
    \/ Restart

ReindexSpec == ReindexInit /\ [][ReindexNext]_vars

\* ------------------------------------------------- InvertedIndex (legacy)

\* InvertedIndex.add_document(path) of src/utils.py for a file a tokenizer
\* claims: the id is assigned in docs2ids before the file is tokenized, and an
\* exception of the tokenizer leaves it there. What follows the tokenizing is
\* what add_document_freqs does.
InvertedIndex_add_document(S, path, raw, cfg) ==
    IF path \in DOMAIN S.docs2ids /\ S.docs2ids[path] \notin DOMAIN S.ids2docs
    THEN Outcome(S, "KeyError")
    ELSE IF IsDuplicate(S, path)
    THEN Outcome(S, "False")
    ELSE IF tokenize(raw, cfg).ret = "raise"
    THEN Outcome([S EXCEPT !.docs2ids = Put(S.docs2ids, path, AllocId(S, path))],
                 "Exception")
    ELSE add_document_freqs(S, path, tokenize(raw, cfg).freqs)

LegacyAddDocument ==
    /\ nops < MaxLexSteps
    /\ \E path \in Paths, raw \in RawLexings :
        \E r \in {InvertedIndex_add_document(IndexState, path, raw, config)} :
            /\ Becomes(r.state)
            /\ last' = [op |-> "add_document", path |-> path, ret |-> r.ret,
                        raw |-> raw]
    /\ Called

\* InvertedIndex.remove_document is remove_document of the memory backend.
LegacyNext ==
    \/ LegacyAddDocument
    \/ RemoveDocument

LegacySpec == Init /\ [][LegacyNext]_vars

\* ------------------------------------------- two indexes, called alike

\* add_document_freqs and remove_document of an index created with the given
\* keep_docs.
add_document_freqs_keep(S, path, freqs_dict, keep) ==
    IF path \in DOMAIN S.docs2ids /\ S.docs2ids[path] \notin DOMAIN S.ids2docs
    THEN Outcome(S, "KeyError")
    ELSE IF IsDuplicate(S, path)
    THEN Outcome(S, "False")
    ELSE Outcome([docs2ids |-> Put(S.docs2ids, path, AllocId(S, path)),
                  ids2docs |-> Put(S.ids2docs, AllocId(S, path), path),
                  table |-> WritePostings(S.table, freqs_dict, AllocId(S, path)),
                  doc_freqs |->
                      IF keep
                      THEN [f \in Fields |->
                              IF f \in DOMAIN freqs_dict
                              THEN Put(S.doc_freqs[f], AllocId(S, path), freqs_dict[f])
                              ELSE S.doc_freqs[f]]
                      ELSE S.doc_freqs],
                 "True")

Removed(S, doc_id, keep, r) ==
    IF keep
    THEN Outcome([S EXCEPT !.ids2docs = Put(S.ids2docs, doc_id, None),
                           !.table = r.table],
                 IF r.ok THEN "None" ELSE "KeyError")
    ELSE Outcome([S EXCEPT !.ids2docs = Put(S.ids2docs, doc_id, None),
                           !.table = PopEverywhere(S.table, doc_id)], "None")

remove_document_keep(S, path, keep) ==
    IF path \notin DOMAIN S.docs2ids
    THEN Outcome(S, "InvalidDocument")
    ELSE Removed(S, S.docs2ids[path], keep,
                 IF keep
                 THEN DelFields(S.table, S.doc_freqs, 1, S.docs2ids[path])
                 ELSE [table |-> S.table, ok |-> TRUE])

\* The index with keep_docs=True is the index of the state; the index with
\* keep_docs=False, which gets the same calls, is last.twin, and what a call
\* gave there is last.twin_ret.
TwinInit ==
    /\ docs2ids = clear.docs2ids
    /\ ids2docs = clear.ids2docs
    /\ table = clear.table
    /\ doc_freqs = clear.doc_freqs
    /\ keep_docs = TRUE
    /\ config = DEFAULT_CONFIG
    /\ mtimes = EmptyDict
    /\ files = EmptyDict
    /\ counts = <<0, 0, 0>>
    /\ last = [op |-> "__init__", path |-> None, ret |-> "None", twin |-> clear,
               twin_ret |-> "None"]
    /\ nops = 0
    /\ requests = NoRequests
    /\ default_nlp = Untouched

BothCalled(name, path, r, t) ==
    /\ Becomes(r.state)
    /\ last' = [op |-> name, path |-> path, ret |-> r.ret, twin |-> t.state,
                twin_ret |-> t.ret]
    /\ Called

TwinAddDocumentFreqs ==
    /\ CanCall
    /\ \E path \in Paths, freqs_dict \in FreqDicts :
        BothCalled("add_document_freqs", path,
                   add_document_freqs_keep(IndexState, path, freqs_dict, TRUE),
                   add_document_freqs_keep(last.twin, path, freqs_dict, FALSE))

TwinRemoveDocument ==
    /\ CanCall
    /\ \E path \in Paths :
        BothCalled("remove_document", path,
                   remove_document_keep(IndexState, path, TRUE),
                   remove_document_keep(last.twin, path, FALSE))

TwinNext ==
    \/ TwinAddDocumentFreqs
    \/ TwinRemoveDocument

TwinSpec == TwinInit /\ [][TwinNext]_vars

\* ------------------------------------------------------------------ claims

\* C1 (id stability): in every step that is not clear(), every path that has a
\* doc_id keeps that doc_id; a path re-added after its removal therefore gets
\* the id it had.
C1_IdStability ==
    [][last'.op # "clear" =>
        \A p \in DOMAIN docs2ids : p \in DOMAIN docs2ids' /\ docs2ids'[p] = docs2ids[p]]_vars

\* a successful add of a path whose id is not the newest one: a tombstoned
\* path was re-added
C1_Witness ==
    /\ last.op = "add_document_freqs"
    /\ last.ret = "True"
    /\ docs2ids[last.path] + 1 < Cardinality(DOMAIN docs2ids)

\* C2: docs2ids is injective, its ids are exactly 0..len(docs2ids)-1, the slot
\* of a live path holds that path, and a slot holds a path only if this is
\* the slot docs2ids gives that path.
C2_IdBijection ==
    /\ \A p, q \in DOMAIN docs2ids : docs2ids[p] = docs2ids[q] => p = q
    /\ {docs2ids[p] : p \in DOMAIN docs2ids} = 0..(Cardinality(DOMAIN docs2ids) - 1)
    /\ \A p \in DOMAIN docs2ids : IsLive(p) => ids2docs[docs2ids[p]] = p
    /\ \A i \in DOMAIN ids2docs :
          ids2docs[i] # None => (ids2docs[i] \in DOMAIN docs2ids /\ docs2ids[ids2docs[i]] = i)

\* two ids allocated, the older one tombstoned and the newer one live
C2_Witness ==
    /\ Cardinality(DOMAIN docs2ids) = 2
    /\ \E p, q \in DOMAIN docs2ids : IsTombstoned(p) /\ IsLive(q) /\ docs2ids[p] < docs2ids[q]

\* C3 (tombstone purge), as claimed: once remove_document(p) has returned, no
\* posting list holds p's doc_id.
C3_TombstonePurge ==
    (last.op = "remove_document" /\ last.ret = "None")
        => ~HasPosting(table, docs2ids[last.path])

\* C4 (round trip): in every reachable state, for every path p and freqs F, if
\* add_document_freqs(p, F) returns true then get_docs(f, t) maps p's doc_id
\* to F[f][t] for every field f of F and token t of F[f].
C4_RoundTrip ==
    \A p \in Paths, F \in FreqDicts :
        LET r == add_document_freqs(IndexState, p, F) IN
        r.ret = "True" =>
            \A f \in DOMAIN F : \A t \in DOMAIN F[f] :
                LET docs == get_docs(r.state.table, f, t).docs IN
                /\ r.state.docs2ids[p] \in DictKeys(docs)
                /\ DictGet(docs, r.state.docs2ids[p]) = F[f][t]

\* an add succeeded on a path that had been removed, with another document in
\* the index, and left postings
C4_Witness ==
    /\ last.op = "add_document_freqs"
    /\ last.ret = "True"
    /\ docs2ids[last.path] + 1 < Cardinality(DOMAIN docs2ids)
    /\ HasPosting(table, docs2ids[last.path])

\* C5: add_document_freqs on a path that is live returns false and changes
\* none of docs2ids, ids2docs, table, doc_freqs, whatever freqs it is given.
C5_DuplicateAddRejected ==
    [][(last'.op = "add_document_freqs" /\ IsLive(last'.path))
          => (last'.ret = "False" /\ UNCHANGED index_vars)]_vars

\* a duplicate add was rejected on an index that holds postings
C5_Witness ==
    /\ last.op = "add_document_freqs"
    /\ last.ret = "False"
    /\ IsLive(last.path)
    /\ HasPosting(table, docs2ids[last.path])

\* C6, as claimed: a remove_document(p) that directly follows a
\* remove_document(p) that returned fails with InvalidDocument.
C6_SecondRemoveInvalid ==
    [][(/\ last.op = "remove_document"
        /\ last.ret = "None"
        /\ last'.op = "remove_document"
        /\ last'.path = last.path)
          => last'.ret = "InvalidDocument"]_vars

\* C7: remove_document on a path that has no doc_id raises InvalidDocument
\* and changes none of docs2ids, ids2docs, table, doc_freqs.
C7_RemoveUnknown ==
    [][(last'.op = "remove_document" /\ last'.path \notin DOMAIN docs2ids)
          => (last'.ret = "InvalidDocument" /\ UNCHANGED index_vars)]_vars

\* InvalidDocument was raised on an index that holds another document
C7_Witness ==
    /\ last.op = "remove_document"
    /\ last.ret = "InvalidDocument"
    /\ last.path \notin DOMAIN docs2ids
    /\ \E q \in DOMAIN docs2ids : HasPosting(table, docs2ids[q])

\* C8, as claimed: update_document on a live path p keeps p's doc_id and
\* returns the result of the add; if the file is analyzable the postings of p
\* are exactly the new frequencies, otherwise p is a tombstone without
\* postings.
C8_UpdateIsRemoveThenAdd ==
    \A p \in Paths, analysis \in AnalyzeResults :
        IsLive(p) =>
            LET r == update_document(IndexState, p, analysis)
                doc_id == docs2ids[p]
            IN /\ r.ret = (IF analysis.ok THEN "True" ELSE "False")
               /\ r.state.docs2ids[p] = doc_id
               /\ analysis.ok =>
                    (/\ r.state.ids2docs[doc_id] = p
                     /\ PostingsOf(r.state.table, doc_id) = analysis.freqs)
               /\ ~analysis.ok =>
                    (/\ r.state.ids2docs[doc_id] = None
                     /\ ~HasPosting(r.state.table, doc_id))

\* C9: a read (get_docs, get_paths, get_paths_op, every scoring mode) changes
\* none of table, docs2ids, ids2docs, doc_freqs, and a token that is no key of
\* table[field] yields an empty mapping / an empty result sequence.
UnknownTokenYieldsEmpty ==
    \A f \in Fields, t \in QueryTokens :
        t \notin DOMAIN table[f] =>
            /\ get_docs(table, f, t).docs = EmptyDict
            /\ \A scoring \in SCORING_METHODS :
                  /\ get_paths(IndexState, f, t, scoring).out = <<>>
                  /\ \A op \in OP_METHODS :
                        get_paths_op(IndexState, f, <<t>>, op, scoring).out = <<>>

C9_ReadsDoNotMutate ==
    /\ []UnknownTokenYieldsEmpty
    /\ [][last'.op \in ReadOps => UNCHANGED index_vars]_vars

\* a multi-token read ran on an index that holds postings and tombstones
C9_Witness ==
    /\ last.op = "get_paths_op"
    /\ last.ret = "paths"
    /\ \E p, q \in DOMAIN docs2ids : IsTombstoned(p) /\ HasPosting(table, docs2ids[q])

\* C10, as claimed: for a field whose config is not case-sensitive,
\* get_docs(f, t) and get_docs(f, t.upper()) are equal mappings.
C10_CaseInsensitiveLookup ==
    \A f \in Fields, t \in QueryTokens :
        ~config[f].case_sensitive =>
            get_docs(table, f, t).docs = get_docs(table, f, Upper(t)).docs

\* C11, as claimed: with keep_docs on, table and doc_freqs mirror each other:
\* (field, token, doc_id, freq) is a posting of table if and only if
\* doc_freqs[field][doc_id][token] = freq.
C11_MirrorImage ==
    keep_docs =>
        \A f \in Fields :
            /\ \A t \in DOMAIN table[f] : \A i \in DOMAIN table[f][t] :
                  LET doc_id == table[f][t][i][1]
                      freq == table[f][t][i][2]
                  IN /\ doc_id \in DOMAIN doc_freqs[f]
                     /\ t \in DOMAIN doc_freqs[f][doc_id]
                     /\ doc_freqs[f][doc_id][t] = freq
            /\ \A doc_id \in DOMAIN doc_freqs[f] : \A t \in DOMAIN doc_freqs[f][doc_id] :
                  /\ t \in DOMAIN table[f]
                  /\ doc_id \in DictKeys(table[f][t])
                  /\ DictGet(table[f][t], doc_id) = doc_freqs[f][doc_id][t]

\* The content of an index with the doc_ids read as paths: the postings of the
\* live paths, the table (token keys and posting maps) and doc_freqs.
ContentOf(S) ==
    [live |-> [p \in {q \in DOMAIN S.docs2ids : S.ids2docs[S.docs2ids[q]] # None} |->
                  PostingsOf(S.table, S.docs2ids[p])],
     table |-> [f \in Fields |-> [t \in DOMAIN S.table[f] |->
                  {<<S.ids2docs[S.table[f][t][i][1]], S.table[f][t][i][2]>> :
                      i \in DOMAIN S.table[f][t]}]],
     doc_freqs |-> [f \in Fields |->
                  {<<S.ids2docs[d], S.doc_freqs[f][d]>> : d \in DOMAIN S.doc_freqs[f]}]]

\* index(partial=false) on the files as they are, with the suffixes of the
\* last pass and the active config
Rebuild ==
    index(IndexState, config, mtimes, files, last.suffixes, FALSE,
          [given |-> TRUE, value |-> config], <<>>).pass

\* C12, as claimed (incremental == rebuild): after a completed partial pass
\* the index has the same live-path postings, the same table (token keys and
\* posting maps) and the same doc_freqs as a full pass over the same files
\* gives.
C12_IncrementalIsRebuild ==
    (last.op = "index" /\ last.partial /\ last.ret = "ok")
        => ContentOf(IndexState) = ContentOf(Rebuild.state)

\* C13: index(partial=True, config=c) with a config c that differs from the
\* analyzer's active config raises IndexerError and changes none of docs2ids,
\* ids2docs, table, doc_freqs, mtimes and the active config: in every
\* reachable state, for every such call, and in every step that raised it.
ConfigChangeRejected ==
    \A suffixes \in SuffixArgs, c \in Configs :
        c # config =>
            \A order \in Orders(Unseen(mtimes, files, suffixes)) :
                LET r == index(IndexState, config, mtimes, files, suffixes, TRUE,
                               [given |-> TRUE, value |-> c], order)
                IN /\ r.pass.ret = "IndexerError"
                   /\ r.pass.state = IndexState
                   /\ r.pass.mtimes = mtimes
                   /\ r.config = config

C13_ConfigChangeRejected ==
    /\ []ConfigChangeRejected
    /\ [][last'.ret = "IndexerError" => UNCHANGED <<index_vars, mtimes, config>>]_vars

\* a partial pass was rejected on an index that holds documents, while a
\* file waits to be indexed
C13_Witness ==
    /\ last.op = "index"
    /\ last.ret = "IndexerError"
    /\ \E p \in DOMAIN mtimes : IsLive(p) /\ HasPosting(table, docs2ids[p])
    /\ \E p \in DOMAIN files : p \notin DOMAIN mtimes

\* What an index holds of a path: its doc_id, the slot of that id, its
\* postings and its doc_freqs entries.
DocOf(S, p) ==
    IF p \in DOMAIN S.docs2ids
    THEN [known |-> TRUE,
          doc_id |-> S.docs2ids[p],
          live |-> S.ids2docs[S.docs2ids[p]] # None,
          postings |-> PostingsOf(S.table, S.docs2ids[p]),
          doc_freqs |-> [f \in Fields |->
                            IF S.docs2ids[p] \in DOMAIN S.doc_freqs[f]
                            THEN {S.doc_freqs[f][S.docs2ids[p]]}
                            ELSE {}]]
    ELSE [known |-> FALSE, doc_id |-> -1, live |-> FALSE,
          postings |-> [f \in Fields |-> EmptyDict],
          doc_freqs |-> [f \in Fields |-> {}]]

\* C14, as claimed (diff classification): in a partial pass, for every file
\* the traversal yields, (a) without an mtimes entry the file is added and its
\* mtime recorded; (b) with mtimes[file] equal to its mtime neither the index
\* nor mtimes changes for it; (c) otherwise mtimes[file] becomes the new mtime,
\* the file keeps its doc_id, and it is live with exactly its new postings if
\* it is analyzable and has no postings if it is not.
C14_DiffClassification ==
    [][(last'.op = "index" /\ last'.partial /\ last'.ret # "IndexerError") =>
        \A p \in DOMAIN files :
            (last'.suffixes = {} \/ Suffix(p) \in last'.suffixes) =>
                LET old == DocOf(IndexState, p)
                    new == DocOf(IndexState', p)
                    c == files[p].content
                    indexed == /\ p \in DOMAIN mtimes'
                               /\ mtimes'[p] = files[p].mtime
                               /\ old.known => new.doc_id = old.doc_id
                               /\ c.ok => (new.live /\ new.postings = c.freqs)
                               /\ ~c.ok => (~new.live /\ ~old.known => new = old)
                               /\ (~c.ok /\ old.known) =>
                                     new.postings = [f \in Fields |-> EmptyDict]
                IN CASE p \notin DOMAIN mtimes -> indexed
                     [] mtimes[p] = files[p].mtime ->
                            /\ new = old
                            /\ p \in DOMAIN mtimes' /\ mtimes'[p] = mtimes[p]
                     [] OTHER -> indexed]_vars

\* the files of a partial pass whose update removed the old document and
\* could not re-add it
FailedUpdates(suffixes) ==
    {p \in DOMAIN mtimes :
        /\ p \in DOMAIN files
        /\ suffixes = {} \/ Suffix(p) \in suffixes
        /\ mtimes[p] # files[p].mtime
        /\ p \in DOMAIN docs2ids
        /\ ~files[p].content.ok}

\* C15 (end-of-pass removal): a partial pass that completes leaves every path
\* that was a key of mtimes and that the traversal did not yield without an
\* mtimes entry, not live and without postings, and has counted each such
\* path once as removed (the other removals it counts are the updates that
\* could not re-add the file).
C15_EndOfPassRemoval ==
    [][(last'.op = "index" /\ last'.partial /\ last'.ret = "ok") =>
        LET unseen == Unseen(mtimes, files, last'.suffixes) IN
        /\ \A p \in unseen :
              /\ p \notin DOMAIN mtimes'
              /\ ~DocOf(IndexState', p).live
              /\ DocOf(IndexState', p).postings = [f \in Fields |-> EmptyDict]
        /\ counts'[2] = Cardinality(unseen) + Cardinality(FailedUpdates(last'.suffixes))]_vars

\* a partial pass removed a deleted file that had postings, and kept another
\* file that is still there
C15_Witness ==
    /\ last.op = "index" /\ last.partial /\ last.ret = "ok"
    /\ counts[2] = 1
    /\ \E p \in DOMAIN docs2ids : IsTombstoned(p) /\ p \notin DOMAIN files
                                   /\ p \notin DOMAIN mtimes
    /\ \E q \in DOMAIN mtimes : IsLive(q) /\ HasPosting(table, docs2ids[q])

\* C16: after every pass that completes, partial or full, the keys of mtimes
\* are exactly the files that are there and pass the suffix filter, that is,
\* the files the pass handled.
C16_MtimesKeys ==
    (last.op = "index" /\ last.ret = "ok") =>
        LET found == Traversal(files, last.suffixes) IN
        DOMAIN mtimes = {found[i] : i \in DOMAIN found}

\* a partial pass with a suffix filter completed: it kept the file with the
\* suffix and dropped an indexed file that the filter excludes
C16_Witness ==
    /\ last.op = "index" /\ last.partial /\ last.ret = "ok"
    /\ last.suffixes = {".py"}
    /\ DOMAIN mtimes = {"r/a.py"}
    /\ "s/c.txt" \in DOMAIN files
    /\ IsTombstoned("s/c.txt")

\* the files a pass found for which it called add_document with success
AddedFiles(suffixes, partial) ==
    {p \in DOMAIN files :
        /\ suffixes = {} \/ Suffix(p) \in suffixes
        /\ files[p].content.ok
        /\ \/ ~partial
           \/ p \notin DOMAIN mtimes /\ ~IsLive(p)
           \/ /\ p \in DOMAIN mtimes
              /\ mtimes[p] # files[p].mtime
              /\ p \notin DOMAIN docs2ids}

C18_NotAnalyzableSkipped ==
    /\ \A p \in Paths :
          /\ add_document(IndexState, p, NotAnalyzable) = Outcome(IndexState, "False")
          /\ LET acc == AddFile(PassStart(IndexState, mtimes), p, nops + 1, NotAnalyzable)
             IN acc.state = IndexState /\ acc.added = 0 /\ acc.ret = "ok"
    /\ (last.op = "index" /\ ~last.partial /\ last.ret = "ok") =>
          LET found == Traversal(files, last.suffixes)
              handled == {found[i] : i \in DOMAIN found}
          IN /\ \A p \in handled : ~files[p].content.ok => p \notin DOMAIN docs2ids
             /\ counts[1] = Cardinality({p \in handled : files[p].content.ok})

\* a full pass handled a file that is not analyzable and one that is: it
\* counted one file and allocated one doc_id
C18_Witness ==
    /\ last.op = "index" /\ ~last.partial /\ last.ret = "ok"
    /\ counts = <<1, 0, 0>>
    /\ Cardinality(DOMAIN mtimes) = 2
    /\ Cardinality(DOMAIN docs2ids) = 1
    /\ \E p \in DOMAIN files : ~files[p].content.ok /\ p \in DOMAIN mtimes

\* C19, as claimed (tf-idf): for a token that k of the N documents have in
\* field f, get_paths(f, token, "tfidf") gives every document the score
\* tf * log10(N / k) of its term frequency tf, with N the number of
\* documents, so that N >= k and no score is negative.
C19_Tfidf ==
    \A f \in Fields, t \in QueryTokens :
        LET docs == get_docs(table, f, t).docs
            out == get_paths(IndexState, f, t, "tfidf").out
            N == Cardinality({p \in DOMAIN docs2ids : IsLive(p)})
        IN \A i \in DOMAIN out :
              /\ out[i][2] = _tfidf(docs[i][2], N, Len(docs))
              /\ out[i][2].num_docs >= out[i][2].df

\* some posting list holds the id of a document that is not live
TombstonePosting ==
    \E f \in Fields : \E t \in DOMAIN table[f] : \E doc_id \in DictKeys(table[f][t]) :
        doc_id \notin DOMAIN ids2docs \/ ids2docs[doc_id] = None

\* C20, as claimed (searches skip tombstones): after any adds, removes and
\* updates, every doc_id in a posting list has an ids2docs entry that is a
\* live path; search_token, search_tokens_and and search_tokens_or called
\* with at least one token, and search_text called with "and" or "or", return
\* a list and do not raise; and every path of the list is a live document.
C20_SearchSkipsTombstones ==
    /\ ~TombstonePosting
    /\ \A groupname \in GroupNames, field \in Fields, sortby \in SORTBY_METHODS,
          scoring \in SCORING_METHODS :
        /\ \A token \in QueryTokens :
              LET r == search_token(IndexState, groupname, field, token, sortby, scoring)
              IN r.ret = "list" /\ \A i \in DOMAIN r.out : IsLive(r.out[i][1])
        /\ \A tokens \in TokenSeqs \ {<<>>}, op \in OP_METHODS :
              LET r == search_tokens(IndexState, groupname, field, tokens, op,
                                     sortby, scoring)
              IN r.ret = "list" /\ \A i \in DOMAIN r.out : IsLive(r.out[i][1])
        /\ \A text \in Texts \ {<<>>}, op \in OP_METHODS :
              LET r == search_text(IndexState, config, groupname, field, text, op,
                                   sortby, scoring)
              IN r.ret = "list" /\ \A i \in DOMAIN r.out : IsLive(r.out[i][1])

\* A search raised TypeError although it was given tokens: some posting list
\* refers to a tombstone.
SearchFailsOnTombstone ==
    /\ last.op \in SearchOps
    /\ last.ret = "TypeError"
    /\ TombstonePosting

\* the string p is what the string s begins with
BeginsWith(s, p) == \E n \in 0..Len(s) : SubSeq(s, 1, n) = p

\* the string form of the path begins with the string form of a root of g
InGroup(path, g) == \E root \in groups[g] : BeginsWith(Chars(path), Chars(root))

\* C21 (group filter): a list that _sorted returns for group g consists of
\* exactly the hits whose path string begins with the string form of some
\* root of g: every returned path has such a prefix, and no hit that has one
\* is dropped.
C21_GroupFilter ==
    (last.op = "_sorted" /\ last.ret = "list") =>
        LET hits == last.paths
            out == last.out
            kept == {i \in DOMAIN hits : hits[i][1] # None /\ InGroup(hits[i][1], last.groupname)}
        IN /\ \A k \in DOMAIN out : out[k][1] # None /\ InGroup(out[k][1], last.groupname)
           /\ {out[k] : k \in DOMAIN out} = {hits[i] : i \in kept}
           /\ Len(out) = Cardinality(kept)

\* The group with the root "r" was searched: the hit under "s" was dropped,
\* the hits under "r" and under "r.b" were returned.
C21_Witness ==
    /\ last.op = "_sorted"
    /\ last.ret = "list"
    /\ last.groupname = "src"
    /\ {last.paths[i][1] : i \in DOMAIN last.paths} = {"r/a.py", "r.b/a.py", "s/c.txt"}
    /\ {last.out[k][1] : k \in DOMAIN last.out} = {"r/a.py", "r.b/a.py"}

\* C22, as claimed (result ordering): a list that _sorted returns is a
\* permutation of the hits of the group; with sort=path the path strings
\* ascend, with sort=score the scores do not increase.
C22_ResultOrder ==
    (last.op = "_sorted" /\ last.ret = "list") =>
        LET hits == last.paths
            out == last.out
            kept == {i \in DOMAIN hits : hits[i][1] # None /\ InGroup(hits[i][1], last.groupname)}
        IN /\ {out[k] : k \in DOMAIN out} = {hits[i] : i \in kept}
           /\ Len(out) = Cardinality(kept)
           /\ last.sortby = "path" =>
                \A i, j \in DOMAIN out :
                    i < j => StrLess(Chars(out[i][1]), Chars(out[j][1]))
           /\ last.sortby = "score" =>
                \A i, j \in DOMAIN out : i < j => out[i][2] >= out[j][2]

\* plugin p declares suffix x
Declares(p, x) == \E i \in DOMAIN last.declared[p] : last.declared[p][i] = x

\* C23, as claimed (plugin precedence): the registry maps every suffix that
\* some plugin declares to the first plugin, in registration order, that
\* declares it, and holds no other suffix; so every suffix of the registry
\* is mapped to a plugin that declares it.
C23_PluginPrecedence ==
    last.op = "_get_tokenizers" =>
        \A x \in SuffixNames :
            LET claimants == {k \in DOMAIN PluginOrder : Declares(PluginOrder[k], x)} IN
            /\ x \in DOMAIN last.tokenizers <=> claimants # {}
            /\ x \in DOMAIN last.tokenizers =>
                  /\ Declares(last.tokenizers[x], x)
                  /\ \A k \in claimants :
                        \E j \in claimants : j <= k /\ PluginOrder[j] = last.tokenizers[x]


\* C24: an add of a file whose raw lexing ends with a listed exception leaves
\* the index as it was: no id, no document, no posting is added.
C24_ListedErrorSkipsFile ==
    [][(last'.op = "add_lexed" /\ last'.raw.end = "listed" /\ nops' = nops + 1)
        => UNCHANGED <<docs2ids, ids2docs, table, doc_freqs>>]_vars


\* Counting the terms Preprocess.text gives for each string of a list, one
\* string after the other, from the k-th on.
RECURSIVE CountTexts(_, _, _, _)
CountTexts(cfg, strs, freqs, k) ==
    IF k > Len(strs)
    THEN freqs
    ELSE CountTexts(cfg, strs,
                    CounterUpdate(freqs, Preprocess_text(cfg, strs[k]), 1), k + 1)

\* C25: Preprocess.batch adds to the counter exactly the terms Preprocess.text
\* gives for each of the texts, as often as it gives them; so the terms stored
\* for a single raw token s are the terms a query s is normalized to.
C25_BatchCountsTexts ==
    last.op = "batch" =>
        /\ last.freqs = CountTexts(last.fieldconfig, last.texts, last.before, 1)
        /\ (Len(last.texts) = 1 /\ last.before = EmptyDict) =>
              DOMAIN last.freqs =
                {Preprocess_text(last.fieldconfig, last.texts[1])[i] :
                    i \in DOMAIN Preprocess_text(last.fieldconfig, last.texts[1])}

\* A batch with an empty string, an upper-case word and a repeated term, added
\* to a counter that is not empty and folds case, has been counted.
C25_Witness ==
    /\ last.op = "batch"
    /\ ~last.fieldconfig.case_sensitive
    /\ last.before # EmptyDict
    /\ Len(last.texts) = 2
    /\ last.texts[1] = EmptyStr
    /\ last.texts[2] = <<"A", "a">>
    /\ last.freqs["a"] = 3


\* C26: at most one request is inside indexer.index at any time, and no
\* request is inside retriever.search_text while one is inside indexer.index.
C26_IndexingExcludes ==
    \A r1, r2 \in RequestIds :
        (r1 # r2 /\ requests[r1] = "indexing") => requests[r2] = "idle"


\* C27: an index with keep_docs=True and one with keep_docs=False that get the
\* same add_document_freqs and remove_document calls give the same result at
\* every call and have the same docs2ids, ids2docs and get_docs results
\* afterwards.
C27_KeepDocsEquivalent ==
    /\ last.ret = last.twin_ret
    /\ docs2ids = last.twin.docs2ids
    /\ ids2docs = last.twin.ids2docs
    /\ \A field \in Fields, token \in Tokens :
          get_docs(table, field, token).docs = get_docs(last.twin.table, field, token).docs

\* The two parameterised operations are the operations of the index.
KeepAgrees ==
    /\ \A path \in Paths, freqs_dict \in FreqDicts :
          add_document_freqs_keep(IndexState, path, freqs_dict, keep_docs)
            = add_document_freqs(IndexState, path, freqs_dict)
    /\ \A path \in Paths :
          remove_document_keep(IndexState, path, keep_docs)
            = remove_document(IndexState, path)


\* C28: whatever adds failed before, every id of docs2ids has an ids2docs
\* entry and, with keep_docs, a doc_freqs entry in every field, and no add
\* fails with a KeyError.
C28_FailedAddConsistent ==
    /\ \A p \in DOMAIN docs2ids :
          /\ docs2ids[p] \in DOMAIN ids2docs
          /\ keep_docs => \A f \in Fields : docs2ids[p] \in DOMAIN doc_freqs[f]
    /\ last.op = "add_document" => last.ret # "KeyError"


\* the files a pass with the given suffixes has seen and a plugin analyzes
Analyzable(fls, suffixes) ==
    {Traversal(fls, suffixes)[i] : i \in DOMAIN Traversal(fls, suffixes)}
        \cap {f \in DOMAIN fls : fls[f].content.ok}

\* C29: after every pass that completes, whatever passes came before it, the
\* live documents are the files the pass has seen that a plugin analyzes.
C29_CompletedPassIndexesAll ==
    (last.op = "index" /\ last.ret = "ok") =>
        {p \in Paths : IsLive(p)} = Analyzable(files, last.suffixes)


\* C30: a partial pass with the config of the index always completes; no
\* pass fails with InvalidDocument because a file that was seen but never
\* indexed has been deleted.
C30_PartialPassCompletes ==
    (last.op = "index" /\ last.partial) => last.ret = "ok"


\* C31: a partial /reindex request whose case-sensitivity flags differ from
\* those the content of the index was built with is rejected with
\* IndexerError and changes neither the index nor mtimes.
C31_NoMixedNormalization ==
    [][(last'.op = "reindex" /\ last'.partial /\ last'.flags # last.built)
        => (last'.ret = "IndexerError" /\ UNCHANGED <<index_vars, mtimes>>)]_vars


\* the spec the traversal uses inside a directory
SpecOf(ign, dir) ==
    CASE dir = <<"r">> -> SpecInside(ign, <<"r">>, defaultignore)
      [] dir = <<"r", "d">> ->
            SpecInside(ign, <<"r", "d">>, SpecInside(ign, <<"r">>, defaultignore))
      [] OTHER -> SpecInside(ign, <<"r">>, defaultignore)

\* the spec a directory inherits
Inherited(ign, dir) ==
    IF dir = <<"r">> THEN defaultignore ELSE SpecOf(ign, <<"r">>)

Yielded(node) == \E i \in DOMAIN last.out : last.out[i] = node

\* C32: the patterns used inside a directory with a .gitignore are the
\* inherited patterns followed by the directory's own; so r/d/a.py, which the
\* .gitignore of r ignores and the .gitignore of r/d names again with "!", is
\* yielded.
C32_OwnPatternsLast ==
    (last.op = "traverse" /\ last.gitignore) =>
        /\ \A dir \in IgnoreDirs :
              last.ignores[dir].present =>
                SpecOf(last.ignores, dir)
                  = Inherited(last.ignores, dir) \o last.ignores[dir].patterns
        /\ ( /\ last.ignores[<<"r">>].patterns = <<[include |-> TRUE, name |-> "a.py"]>>
             /\ last.ignores[<<"r", "d">>].patterns = <<[include |-> FALSE, name |-> "a.py"]>>
             /\ last.suffixes = {} )
           => Yielded(<<"r", "d", "a.py">>)


Parent(node) == SubSeq(node, 1, Len(node) - 1)

\* C33: with gitignore on, no path that is yielded matches the spec used in
\* its directory, none lies below a directory that matches the spec used in
\* that directory's parent, and none lies under .git.
C33_IgnoredNeverYielded ==
    (last.op = "traverse" /\ last.gitignore) =>
        \A i \in DOMAIN last.out :
            /\ ~match_file(SpecOf(last.ignores, Parent(last.out[i])), last.out[i], 1, FALSE)
            /\ \A n \in 2..(Len(last.out[i]) - 1) :
                  ~match_file(SpecOf(last.ignores, SubSeq(last.out[i], 1, n - 1)),
                              SubSeq(last.out[i], 1, n), 1, FALSE)
            /\ \A j \in DOMAIN last.out[i] : last.out[i][j] # ".git"

\* A traversal in which the .gitignore of r names d and tries to take .git
\* back in: r/a.py is yielded, nothing of r/d and nothing of r/.git is.
C33_Witness ==
    /\ last.op = "traverse"
    /\ last.gitignore
    /\ last.suffixes = {}
    /\ last.ignores[<<"r">>].patterns
          = <<[include |-> TRUE, name |-> "d"], [include |-> FALSE, name |-> ".git"]>>
    /\ Yielded(<<"r", "a.py">>)
    /\ ~Yielded(<<"r", "d", "a.py">>)
    /\ ~Yielded(<<"r", ".git", "config">>)

\* C34: every path the pass stats and diffs is a regular file; no directory
\* is a candidate, with gitignore on or off.
C34_CandidatesAreFiles ==
    last.op = "traverse" =>
        \A i \in DOMAIN last.out : last.out[i] \notin FsDirs


\* the files a full pass with the given suffixes adds, in traversal order
FullyAdded(suffixes) ==
    SelectSeq(Traversal(files, suffixes), LAMBDA f : files[f].content.ok)

\* C35: after a full pass that completes, the index has no tombstone, the
\* files added are numbered 0..n-1 in traversal order and no other path has
\* an id, the table holds the postings of these files and no other, mtimes
\* holds the files the pass has seen, and the config is the one passed in.
C35_FullPassDiscards ==
    (last.op = "index" /\ ~last.partial /\ last.ret = "ok") =>
        /\ \A d \in DOMAIN ids2docs : ids2docs[d] # None
        /\ DOMAIN docs2ids = {FullyAdded(last.suffixes)[i] :
                                i \in DOMAIN FullyAdded(last.suffixes)}
        /\ \A i \in DOMAIN FullyAdded(last.suffixes) :
              /\ docs2ids[FullyAdded(last.suffixes)[i]] = i - 1
              /\ ids2docs[i - 1] = FullyAdded(last.suffixes)[i]
              /\ PostingsOf(table, i - 1)
                    = files[FullyAdded(last.suffixes)[i]].content.freqs
        /\ DOMAIN ids2docs = {i - 1 : i \in DOMAIN FullyAdded(last.suffixes)}
        /\ \A f \in Fields : \A t \in DOMAIN table[f] :
              DictKeys(table[f][t]) \subseteq DOMAIN ids2docs
        /\ DOMAIN mtimes = {Traversal(files, last.suffixes)[i] :
                              i \in DOMAIN Traversal(files, last.suffixes)}
        /\ config = IF last.config.given THEN last.config.value ELSE DEFAULT_CONFIG

\* A full pass with another config has completed on an index that a partial
\* pass had left with a tombstone for r/a.py: s/c.txt is document 0, r/a.py,
\* which no plugin analyzes now, has no id.
C35_Witness ==
    /\ last.op = "index" /\ ~last.partial /\ last.ret = "ok"
    /\ nops = 3
    /\ last.config = [given |-> TRUE, value |-> ALT_CONFIG]
    /\ DOMAIN files = {"r/a.py", "s/c.txt"}
    /\ ~files["r/a.py"].content.ok
    /\ files["r/a.py"].mtime = 1
    /\ docs2ids = [p \in {"s/c.txt"} |-> 0]
    /\ HasPosting(table, 0)


\* the ids in the posting list of a token, and a document's frequency there
Posted(field, token) ==
    IF token \in DOMAIN table[field] THEN DictKeys(table[field][token]) ELSE {}

Freq(field, token, doc_id) ==
    IF doc_id \in Posted(field, token) THEN DictGet(table[field][token], doc_id) ELSE 0

\* the intersection or the union of the posting key sets of the tokens
Combined(field, tokens, op) ==
    {d \in UNION {Posted(field, tokens[k]) : k \in DOMAIN tokens} :
        op = "or" \/ \A k \in DOMAIN tokens : d \in Posted(field, tokens[k])}

RECURSIVE FreqSum(_, _, _, _)
FreqSum(field, tokens, k, doc_id) ==
    IF k > Len(tokens)
    THEN 0
    ELSE Freq(field, tokens[k], doc_id) + FreqSum(field, tokens, k + 1, doc_id)

\* C36: get_paths_op yields one pair for every document of the combined set
\* and no other pair, and with scoring term_freq the score of a document is the
\* sum of its frequencies over the token sequence as given, a repeated token
\* counted each time.
C36_CombinedOnceWithSum ==
    (last.op = "get_paths_op" /\ last.ret = "paths") =>
        /\ Len(last.out) = Cardinality(Combined(last.field, last.tokens, last.setop))
        /\ \A d \in Combined(last.field, last.tokens, last.setop) :
              \E i \in DOMAIN last.out :
                  /\ last.out[i][1] = ids2docs[d]
                  /\ last.scoring = "term_freq" =>
                        last.out[i][2] = FreqSum(last.field, last.tokens, 1, d)
        /\ Cardinality({i \in DOMAIN last.out : last.out[i][1] = None})
             = Cardinality({d \in Combined(last.field, last.tokens, last.setop) :
                              ids2docs[d] = None})

\* Two documents hold the token a; the query a, a combined by intersection and
\* scored by term frequency has yielded both, each with twice its frequency.
C36_Witness ==
    /\ last.op = "get_paths_op" /\ last.ret = "paths"
    /\ last.tokens = <<"a", "a">> /\ last.setop = "and"
    /\ last.scoring = "term_freq" /\ last.field = "text"
    /\ Len(last.out) = 2
    /\ \E i \in DOMAIN last.out : last.out[i][2] >= 2


\* the documents that are live
LiveIds == {d \in DOMAIN ids2docs : ids2docs[d] # None}

\* C37: table[field] has the key t exactly when a live document holds t in
\* the field; no key is left with an empty posting list, so the number of keys
\* is the number of distinct tokens indexed.
C37_KeysAreIndexedTokens ==
    \A f \in Fields : \A t \in QueryTokens :
        t \in DOMAIN table[f] <=> (\E d \in LiveIds : d \in Posted(f, t))

\* the tokens the text of the last search_text normalizes to
LastTokens == query(config, last.field, last.text)

\* C38: search_text with a valid group, field and op returns a list for every
\* text: the list of search_token when the text normalizes to one token, the
\* list of search_tokens_and / search_tokens_or when it normalizes to several,
\* and the empty list when it normalizes to none.
C38_SearchTextTotal ==
    last.op = "search_text" =>
        /\ last.ret = "list"
        /\ Len(LastTokens) = 0 => last.out = <<>>
        /\ Len(LastTokens) = 1 =>
              last.out = search_token(IndexState, last.groupname, last.field,
                                      LastTokens[1], last.sortby, last.scoring).out
        /\ Len(LastTokens) > 1 =>
              last.out = search_tokens(IndexState, last.groupname, last.field,
                                       LastTokens, last.setop, last.sortby,
                                       last.scoring).out


====
